---- MODULE Spec2Model ----
(***************************************************************************)
(* Ultra.cc Servarr bootstrap: the HTTP client adapter with retry and      *)
(* dry-run (scripts/lib/api_client.py), the connectivity prober            *)
(* (scripts/validate.py), the per-service reconcilers (scripts/services),  *)
(* the run summary tracker (scripts/lib/logger.py) and the orchestrator    *)
(* (scripts/setup.py).                                                     *)
(***************************************************************************)
EXTENDS Integers, Sequences, FiniteSets, TLC

VARIABLES
    client,     \* the client object: [cls, dry_run, authenticated]
    frame,      \* the public client call in progress: [api, path, stage]
    reqs,       \* the _request invocations of that call, the last one current
    outcome,    \* what the public call gave its caller: [kind, t, v]
    ncalls,     \* public calls completed on this client object
    args,       \* the command line: [services, dry_run, decl]
    env,        \* the environment: variable name -> value
    config,     \* the resolved configuration, once loaded
    requested,  \* parse_services(args.services)
    reachable,  \* validate: the services whose probe passed so far
    probed,     \* validate: how the probe of each service probed so far ended
    pc,         \* where main is
    idx,        \* main: position of the loop in ALL_SERVICES
    summary,    \* SummaryLogger._services: service -> [status, changes, errors]
    order,      \* the insertion order of SummaryLogger._services
    remote,     \* the configuration held by each service
    rc,         \* the reconciler invocation in progress
    net,        \* the requests sent so far: [svc, method, path]
    exit_code,  \* the status main exits with
    prev        \* the previous invocation of the reconciler, when it is run twice

httpVars == <<client, frame, reqs, outcome, ncalls>>
runVars == <<args, env, config, requested, reachable, probed, pc, idx, summary, order,
             remote, rc, net, exit_code, prev>>
vars == <<httpVars, runVars>>
\* What a step inside a reconciler leaves alone.
ctlVars == <<httpVars, args, env, config, requested, reachable, probed, pc, idx,
             summary, order, exit_code, prev>>

(***************************************************************************)
(* HTTP client adapter                                                     *)
(***************************************************************************)

\* Retry settings.
MAX_RETRIES == 3
BACKOFF_BASE == 2

\* Public calls made on one client object.
MaxCalls == 2

RECURSIVE Pow(_, _)
Pow(b, e) == IF e = 0 THEN 1 ELSE b * Pow(b, e - 1)

LoginPath == "api/v2/auth/login"
Paths == {LoginPath, "api/v2/app/preferences"}
Apis == {"get", "post", "put", "delete"}
Writes == {"post", "put", "delete"}

MethodOf(api) ==
    CASE api = "get" -> "GET"
      [] api = "post" -> "POST"
      [] api = "put" -> "PUT"
      [] api = "delete" -> "DELETE"
      [] api = "login" -> "POST"

\* What session.request can give for one attempt: a response with a status,
\* a content type and a body, or a connection-level failure.
Statuses == {200, 404, 503}
ContentTypes == {"application/json", "text/plain"}
Bodies == {"Ok.", "Fails."}
Responses ==
    [kind : {"response"}, status : Statuses, ctype : ContentTypes, body : Bodies]
    \cup {[kind |-> "ConnectionError", status |-> 0, ctype |-> "", body |-> ""]}

None == [t |-> "None", v |-> ""]
NoOutcome == [kind |-> "none", t |-> "", v |-> ""]
Return(val) == [kind |-> "return", t |-> val.t, v |-> val.v]
Raise(exc) == [kind |-> "raise", t |-> exc, v |-> ""]

\* resp.raise_for_status(): an HTTPError for a 4xx or 5xx status.
raise_for_status(resp) == resp.status >= 400 /\ resp.status < 600

\* The attempt raised inside the try block: a ConnectionError from the
\* session, the explicit HTTPError for a status >= 500, or the HTTPError
\* of raise_for_status.  Both exception classes are caught by the handler.
AttemptRaises(resp) ==
    \/ resp.kind = "ConnectionError"
    \/ resp.status >= 500
    \/ raise_for_status(resp)

ExcOf(resp) == IF resp.kind = "ConnectionError" THEN "ConnectionError" ELSE "HTTPError"

\* A retry loop that gives up one attempt early.
ReraisesEarly(attempt, resp) == attempt = MAX_RETRIES - 1

\* The except handler: re-raise on the last attempt, otherwise sleep
\* BACKOFF_BASE ** attempt and go round the loop again.
Reraises(attempt, resp) == attempt = MAX_RETRIES

NoResponse == [kind |-> "none", status |-> 0, ctype |-> "", body |-> ""]

\* A call of _request by the client method `by`, before its first attempt.
NewRequest(by, method, path) ==
    [by |-> by, method |-> method, path |-> path, attempts |-> <<>>,
     waits |-> <<>>, state |-> "active", resp |-> NoResponse]

\* One pass of the for loop of _request on request r, the session answering resp.
RequestStep(r, resp) ==
    LET attempt == Len(r.attempts) + 1
        tried == [r EXCEPT !.attempts = Append(@, [kind |-> resp.kind, status |-> resp.status])]
    IN  IF ~AttemptRaises(resp)
        THEN [tried EXCEPT !.state = "returned", !.resp = resp]
        ELSE IF Reraises(attempt, resp)
             THEN [tried EXCEPT !.state = "raised"]
             ELSE [tried EXCEPT !.waits = Append(@, Pow(BACKOFF_BASE, attempt))]

\* The decoding shared by get/post/put/delete: resp.json() for a JSON
\* content type, resp.text otherwise.
Decode(resp) ==
    IF resp.ctype = "application/json"
    THEN [t |-> "json", v |-> resp.body]
    ELSE [t |-> "text", v |-> resp.body]

\* A dry-run that holds back the POSTs only.
SuppressedPostOnly(dry_run, api) == dry_run /\ api = "post"

\* post/put/delete return None before any request when dry-run is on.
Suppressed(dry_run, api) == dry_run /\ api \in Writes

\* Entering _BaseClient.get/post/put/delete after the requests rs of this call.
BaseCall(cl, api, path, rs) ==
    IF Suppressed(cl.dry_run, api)
    THEN [reqs |-> rs, outcome |-> Return(None), stage |-> "done"]
    ELSE [reqs |-> Append(rs, NewRequest(api, MethodOf(api), path)),
          outcome |-> NoOutcome, stage |-> "main"]

\* QbitClient.get and QbitClient.post log in first when not authenticated.
NeedsLogin(cl, api, path) ==
    /\ cl.cls = "qbit"
    /\ ~cl.authenticated
    /\ \/ api = "get"
       \/ api = "post" /\ path # LoginPath

\* QbitClient.login sends its POST through _request directly.
LoginCall(rs) ==
    [reqs |-> Append(rs, NewRequest("login", "POST", LoginPath)),
     outcome |-> NoOutcome, stage |-> "login"]

\* A public call starts: client.get/post/put/delete(path) or client.login().
Invoke(api, path) ==
    /\ frame.stage = "idle"
    /\ ncalls < MaxCalls
    /\ api = "login" => client.cls = "qbit" /\ path = LoginPath
    /\ LET e == IF api = "login" \/ NeedsLogin(client, api, path)
                THEN LoginCall(<<>>)
                ELSE BaseCall(client, api, path, <<>>)
       IN  /\ frame' = [api |-> api, path |-> path, stage |-> e.stage]
           /\ reqs' = e.reqs
           /\ outcome' = e.outcome
    /\ UNCHANGED <<client, ncalls, runVars>>

\* The body check of login, once its _request has returned resp.
LoginOk(resp) == resp.body = "Ok."

\* The session answers the current attempt with resp.
Attempt(resp) ==
    /\ frame.stage \in {"login", "main"}
    /\ LET n == Len(reqs)
           r == RequestStep(reqs[n], resp)
           rs == [reqs EXCEPT ![n] = r]
       IN  CASE r.state = "active" ->
                  /\ reqs' = rs
                  /\ UNCHANGED <<client, frame, outcome>>
             [] r.state = "raised" ->
                  /\ reqs' = rs
                  /\ outcome' = Raise(ExcOf(resp))
                  /\ frame' = [frame EXCEPT !.stage = "done"]
                  /\ UNCHANGED client
             [] r.state = "returned" /\ frame.stage = "main" ->
                  /\ reqs' = rs
                  /\ outcome' = Return(Decode(resp))
                  /\ frame' = [frame EXCEPT !.stage = "done"]
                  /\ UNCHANGED client
             [] r.state = "returned" /\ frame.stage = "login" /\ ~LoginOk(resp) ->
                  /\ reqs' = rs
                  /\ outcome' = Raise("RuntimeError")
                  /\ frame' = [frame EXCEPT !.stage = "done"]
                  /\ UNCHANGED client
             [] r.state = "returned" /\ frame.stage = "login" /\ LoginOk(resp) ->
                  LET cl == [client EXCEPT !.authenticated = TRUE]
                      e == IF frame.api = "login"
                           THEN [reqs |-> rs, outcome |-> Return(None), stage |-> "done"]
                           ELSE BaseCall(cl, frame.api, frame.path, rs)
                  IN  /\ client' = cl
                      /\ reqs' = e.reqs
                      /\ outcome' = e.outcome
                      /\ frame' = [frame EXCEPT !.stage = e.stage]
    /\ UNCHANGED <<ncalls, runVars>>

\* The caller takes the result; the client object is ready for its next call.
Complete ==
    /\ frame.stage = "done"
    /\ frame' = [api |-> "", path |-> "", stage |-> "idle"]
    /\ reqs' = <<>>
    /\ outcome' = NoOutcome
    /\ ncalls' = ncalls + 1
    /\ UNCHANGED <<client, runVars>>

HttpIdle ==
    /\ frame = [api |-> "", path |-> "", stage |-> "idle"]
    /\ reqs = <<>>
    /\ outcome = NoOutcome
    /\ ncalls = 0

(***************************************************************************)
(* Configuration resolver (scripts/lib/config_loader.py)                   *)
(***************************************************************************)

\* All known services in dependency order.
ReorderedServices ==
    <<"sonarr", "qbittorrent", "sonarr2", "radarr", "radarr2", "prowlarr",
      "jellyfin", "jellyseerr">>

ALL_SERVICES ==
    <<"qbittorrent", "sonarr", "sonarr2", "radarr", "radarr2", "prowlarr",
      "jellyfin", "jellyseerr">>
Services == {ALL_SERVICES[i] : i \in 1..Len(ALL_SERVICES)}

\* dict.get(key, default)
Get(d, k, default) == IF k \in DOMAIN d THEN d[k] ELSE default

ArrNames == {"sonarr", "sonarr2", "radarr", "radarr2"}
InstanceNames == Services \ {"qbittorrent"}
ArrType(name) == IF name \in {"sonarr", "sonarr2"} THEN "sonarr" ELSE "radarr"

\* The instances section of the declaration: every instance names its
\* application path and the secret holding its API key; the Sonarr and
\* Radarr instances also carry a type, a root folder and a category.
RawInstances ==
    [name \in InstanceNames |->
        IF name \in ArrNames
        THEN [type |-> ArrType(name), app_path |-> <<"/", name>>,
              api_key_secret |-> <<"API_KEY", name>>,
              root_folder |-> <<"media", name>>, category |-> <<"cat", name>>]
        ELSE [type |-> name, app_path |-> <<"/", name>>,
              api_key_secret |-> <<"API_KEY", name>>]]

\* Two declarations (config/config.yml) a run can be given, and a third that
\* is the first without its jellyfin entry.
Declarations == {"standard", "custom"}
RunDeclarations == Declarations \cup {"partial"}
Declaration(d) ==
    IF d = "partial"
    THEN [qbittorrent |-> [categories |-> <<[name |-> "radarr"]>>],
          instances |-> [name \in InstanceNames \ {"jellyfin"} |-> RawInstances[name]]]
    ELSE IF d = "standard"
    THEN [qbittorrent |->
              [preferences |->
                   [torrent_management_mode |-> [t |-> "str", v |-> "automatic"],
                    torrent_content_layout |-> [t |-> "str", v |-> "Original"]],
               categories |->
                   <<[name |-> "sonarr", save_path |-> <<"downloads", "tv">>],
                     [name |-> "radarr"]>>],
          instances |-> RawInstances,
          media_management |->
              [hardlinks |-> TRUE, analyze_video |-> FALSE,
               propers_and_repacks |-> "doNotPrefer"],
          tags |-> [sonarr |-> <<"anime">>, radarr |-> <<"Kids", "4k">>]]
    ELSE [qbittorrent |->
              [default_save_path |-> <<"torrents">>,
               preferences |->
                   [torrent_management_mode |-> [t |-> "str", v |-> "manual"],
                    relocate_on_category_change |-> [t |-> "bool", v |-> "true"]],
               categories |-> <<[name |-> "radarr", save_path |-> <<"downloads", "movies">>]>>],
          instances |->
              [RawInstances EXCEPT !.jellyfin =
                  [type |-> "jellyfin", app_path |-> <<"/", "jellyfin">>,
                   api_key_secret |-> <<"API_KEY", "jellyfin">>,
                   libraries |->
                       <<[name |-> "Movies", collectionType |-> "movies",
                          path |-> <<"media", "films">>],
                         [name |-> "Concerts", collectionType |-> "musicvideos",
                          path |-> <<"media", "concerts">>]>>]],
          media_management |-> [hardlinks |-> FALSE],
          tags |-> [radarr2 |-> <<"uhd">>, radarr |-> <<"hdr", "hdr">>]]

\* The variables load_config requires.
FixedEnv == {<<"ULTRA_USERNAME">>, <<"ULTRA_SERVERNAME">>, <<"QBIT_USER">>, <<"QBIT_PASS">>}
EnvNames == FixedEnv \cup {<<"API_KEY", name>> : name \in InstanceNames}
FullEnv == [k \in EnvNames |-> <<"value of", k>>]

\* A variable counts as missing only when it is absent.
Absent(e, key) == key \notin DOMAIN e

\* _require_env raises for a variable that is absent or empty.
Unset(e, key) == IF key \in DOMAIN e THEN e[key] = << >> ELSE TRUE

RequiredEnv(raw) ==
    FixedEnv \cup {raw.instances[n].api_key_secret : n \in DOMAIN raw.instances}

\* A resolver that leaves the declared path as it is.
_declared_path(home_dir, relative) == relative

\* os.path.join(home_dir, relative): an absolute second argument wins.
_abs_path(home_dir, relative) ==
    IF relative # << >> /\ relative[1] = "/" THEN relative ELSE home_dir \o relative

\* load_config for a declaration and an environment that has every
\* required variable.
load_config(raw, e) ==
    LET username == e[<<"ULTRA_USERNAME">>]
        servername == e[<<"ULTRA_SERVERNAME">>]
        base_url == <<"https://", username, servername, "usbx.me">>
        home_dir == <<"/", "home", username>>
        qbit == raw.qbittorrent
    IN  [username |-> username,
         servername |-> servername,
         base_url |-> base_url,
         home_dir |-> home_dir,
         qbittorrent |->
             [url |-> <<base_url, Get(qbit, "app_path", <<"/", "qbittorrent">>)>>,
              default_save_path |->
                  _abs_path(home_dir,
                            Get(qbit, "default_save_path", <<"downloads", "qbittorrent">>)),
              username |-> e[<<"QBIT_USER">>],
              password |-> e[<<"QBIT_PASS">>],
              preferences |-> Get(qbit, "preferences", << >>),
              categories |-> Get(qbit, "categories", << >>)],
         instances |->
             [n \in DOMAIN raw.instances |->
                 LET inst == raw.instances[n]
                     added == {"url", "name"}
                              \cup (IF "api_key_secret" \in DOMAIN inst THEN {"api_key"} ELSE {})
                 IN  [k \in DOMAIN inst \cup added |->
                         CASE k = "url" -> <<base_url, Get(inst, "app_path", << >>)>>
                           [] k = "name" -> n
                           [] k = "api_key" -> e[inst.api_key_secret]
                           [] k = "root_folder" -> _abs_path(home_dir, inst.root_folder)
                           [] OTHER -> inst[k]]],
         media_management |-> Get(raw, "media_management", << >>),
         tags |-> Get(raw, "tags", << >>)]

NoConfig == << >>

(***************************************************************************)
(* Run summary tracker (scripts/lib/logger.py)                             *)
(***************************************************************************)

EmptyDict == [k \in {} |-> TRUE]

_ensure(sm, service) ==
    IF service \in DOMAIN sm
    THEN sm
    ELSE sm @@ (service :> [status |-> "pending", changes |-> << >>, errors |-> << >>])

\* The insertion order of the dict after _ensure(service).
Inserted(names, service) ==
    IF \E i \in 1..Len(names) : names[i] = service THEN names ELSE Append(names, service)

log_change(sm, service, message) ==
    [_ensure(sm, service) EXCEPT ![service].changes = Append(@, message)]

log_skip_as_failure(sm, service, reason) ==
    [_ensure(sm, service) EXCEPT ![service].status = "failed",
                                 ![service].errors = Append(@, reason)]

log_skip(sm, service, reason) ==
    [_ensure(sm, service) EXCEPT ![service].status = "skipped",
                                 ![service].changes = Append(@, <<"Skipped", reason>>)]

log_error(sm, service, error) ==
    [_ensure(sm, service) EXCEPT ![service].errors = Append(@, error)]

mark_in_progress(sm, service) ==
    [_ensure(sm, service) EXCEPT ![service].status = "in_progress"]

mark_success(sm, service, changes) ==
    [_ensure(sm, service) EXCEPT ![service].status = "success",
                                 ![service].changes = @ \o changes]

mark_failed_pending(sm, service, error) ==
    [_ensure(sm, service) EXCEPT ![service].errors = Append(@, error)]

mark_failed(sm, service, error) ==
    [_ensure(sm, service) EXCEPT ![service].status = "failed",
                                 ![service].errors = Append(@, error)]

has_failures_or_skips(sm) == \E s \in DOMAIN sm : sm[s].status \in {"failed", "skipped"}

has_failures(sm) == \E s \in DOMAIN sm : sm[s].status = "failed"

\* The icon print_summary shows for a status.
Icon(status) ==
    CASE status = "success" -> "OK"
      [] status = "failed" -> "FAIL"
      [] status = "skipped" -> "SKIP"
      [] status = "in_progress" -> "..."
      [] status = "pending" -> "---"
      [] OTHER -> "???"

\* The names, in dict order, of the services with the given status.
NamesWithStatus(sm, names, status) == SelectSeq(names, LAMBDA n : sm[n].status = status)

UnsuccessfulNames(sm, names) == SelectSeq(names, LAMBDA n : sm[n].status # "success")

\* failed = [n for n, i in self._services.items() if i["status"] == Status.FAILED]
FailedNames(sm, names) == NamesWithStatus(sm, names, "failed")

\* The lines of one service in the report: its header, changes and errors.
ServiceLines(name, info) ==
    <<<<"service", Icon(info.status), name>>>>
    \o [k \in 1..Len(info.changes) |-> <<"+", info.changes[k]>>]
    \o [k \in 1..Len(info.errors) |-> <<"!", info.errors[k]>>]

RECURSIVE AllServiceLines(_, _)
AllServiceLines(sm, names) ==
    IF names = << >>
    THEN << >>
    ELSE ServiceLines(Head(names), sm[Head(names)]) \o AllServiceLines(sm, Tail(names))

\* The parts of the Result line: the non-zero counts, in this order.
ResultParts(sm, names) ==
    LET count(status) == Len(NamesWithStatus(sm, names, status))
        part(status, word) == IF count(status) > 0 THEN <<<<count(status), word>>>> ELSE << >>
    IN  part("success", "succeeded") \o part("failed", "failed") \o part("skipped", "skipped")

\* print_summary: the lines it prints between the two rules, as
\* <<kind, ...>> tuples.
print_summary(sm, names) ==
    AllServiceLines(sm, names)
    \o <<<<"Result", ResultParts(sm, names)>>>>
    \o (IF has_failures(sm) THEN <<<<"Re-run with", FailedNames(sm, names)>>>> ELSE << >>)

(***************************************************************************)
(* Client calls made by the prober and the reconcilers.  Each call goes    *)
(* through the adapter above; here it either returns or raises.            *)
(***************************************************************************)

NewClient(cls, dry_run) == [cls |-> cls, dry_run |-> dry_run, authenticated |-> FALSE]

\* The requests a client call puts on the wire: the lazy login of the
\* session client, then the call's own request unless dry-run suppresses it.
Wire(cl, svc, api, path) ==
    (IF NeedsLogin(cl, api, path)
     THEN {[svc |-> svc, method |-> "POST", path |-> LoginPath]}
     ELSE {})
    \cup
    (IF Suppressed(cl.dry_run, api)
     THEN {}
     ELSE {[svc |-> svc, method |-> MethodOf(api), path |-> path]})

\* The record a reconciler's write call leaves in rc.calls; id is the
\* server-assigned id that ends the path of an update, 0 without one.
WriteCallTo(cl, api, path, id, payload) ==
    [api |-> api, path |-> path, id |-> id, payload |-> payload,
     sent |-> ~Suppressed(cl.dry_run, api)]

WriteCall(cl, api, path, payload) == WriteCallTo(cl, api, path, 0, payload)

NoRc ==
    [svc |-> "", phase |-> "idle", i |-> 0, cl |-> NewClient("base", FALSE),
     fetched |-> << >>, flag |-> FALSE, changes |-> << >>, calls |-> << >>,
     result |-> "none", error |-> ""]

\* The reconciler raises: the exception leaves the configure function.
Raised(r, exc) == [r EXCEPT !.phase = "done", !.result = "raise", !.error = exc]

\* The reconciler returns its list of changes.
Returned(r) == [r EXCEPT !.phase = "done", !.result = "return"]

\* The steps of a reconciler run only while main (or a caller) is inside it.
Running(svcs, phase) == pc = "reconcile" /\ rc.svc \in svcs /\ rc.phase = phase

\* A client call of the reconciler raises (retries exhausted): the requests
\* `wire` went out, nothing changed on the service, the exception propagates.
CallFails(wire) ==
    /\ net' = net \cup wire
    /\ rc' = Raised(rc, "HTTPError")
    /\ UNCHANGED remote

\* The step needs no write: the reconciler goes on as `after`.
NoWrite(wire, after) ==
    /\ net' = net \cup wire
    /\ rc' = after
    /\ UNCHANGED remote

\* A write after which the reconciler records no change.
WriteSilently(wire, call, changes, applied, after) ==
    /\ net' = net \cup wire \cup Wire(rc.cl, rc.svc, call.api, call.path)
    /\ \E ok \in (IF call.sent THEN BOOLEAN ELSE {TRUE}) :
           IF ok
           THEN /\ rc' = [after EXCEPT !.calls = Append(rc.calls, call)]
                /\ remote' = IF call.sent THEN applied ELSE remote
           ELSE /\ rc' = Raised([rc EXCEPT !.calls = Append(@, call)], "HTTPError")
                /\ UNCHANGED remote

\* client.post / client.put: under dry-run the call returns None and the
\* code goes on; otherwise the service applies it (the remote state becomes
\* `applied`) or the call raises.  The change strings are appended after the
\* call has returned.
Write(wire, call, changes, applied, after) ==
    /\ net' = net \cup wire \cup Wire(rc.cl, rc.svc, call.api, call.path)
    /\ \E ok \in (IF call.sent THEN BOOLEAN ELSE {TRUE}) :
           IF ok
           THEN /\ rc' = [after EXCEPT !.calls = Append(rc.calls, call),
                                       !.changes = rc.changes \o changes]
                /\ remote' = IF call.sent THEN applied ELSE remote
           ELSE /\ rc' = Raised([rc EXCEPT !.calls = Append(@, call)], "HTTPError")
                /\ UNCHANGED remote

(***************************************************************************)
(* qBittorrent reconciler (scripts/services/qbittorrent.py)                *)
(***************************************************************************)

Bool(b) == [t |-> "bool", v |-> IF b THEN "true" ELSE "false"]
Str(x) == [t |-> "str", v |-> x]

\* Map config keys to qBittorrent API preference keys, in dict order.
_PREF_MAP ==
    <<[config_key |-> "torrent_management_mode", api_key |-> "auto_tmm_enabled"],
      [config_key |-> "torrent_content_layout", api_key |-> "torrent_content_layout"],
      [config_key |-> "relocate_on_category_change",
       api_key |-> "torrent_changed_tmm_enabled"],
      [config_key |-> "relocate_on_default_save_path_change",
       api_key |-> "save_path_changed_tmm_enabled"]>>

\* Config values passed on as they are.
_untranslated(config_key, value) == value

\* Config values that need translation to API values.
_VALUE_MAP(config_key, value) ==
    IF config_key = "torrent_management_mode"
    THEN CASE value = Str("automatic") -> Bool(TRUE)
           [] value = Str("manual") -> Bool(FALSE)
           [] OTHER -> value
    ELSE value

\* configure_qbittorrent up to the login: a new session client, then
\* client.login(), which raises when the request fails or the body is not "Ok.".
configure_qbittorrent ==
    /\ Running({"qbittorrent"}, "login")
    /\ UNCHANGED ctlVars
    /\ net' = net \cup {[svc |-> "qbittorrent", method |-> "POST", path |-> LoginPath]}
    /\ \E r \in {"Ok.", "Fails.", "HTTPError"} :
           rc' = CASE r = "HTTPError" -> Raised(rc, "HTTPError")
                   [] r = "Fails." -> Raised(rc, "RuntimeError")
                   [] OTHER -> [rc EXCEPT !.cl.authenticated = LoginOk([body |-> r]),
                                          !.phase = "preferences"]
    /\ UNCHANGED remote

DesiredPref(qbit_cfg, m) == _VALUE_MAP(m.config_key, qbit_cfg.preferences[m.config_key])

PrefDiffers(current, qbit_cfg, m) ==
    /\ m.config_key \in DOMAIN qbit_cfg.preferences
    /\ current[m.api_key] # DesiredPref(qbit_cfg, m)

SavePathAlwaysDiffers(current, qbit_cfg) == TRUE

SavePathDiffers(current, qbit_cfg) == current.save_path # qbit_cfg.default_save_path

\* The updates dict and the change list _set_preferences builds from the
\* fetched preferences.
PrefUpdates(current, qbit_cfg) ==
    LET sel == SelectSeq(_PREF_MAP, LAMBDA m : PrefDiffers(current, qbit_cfg, m))
        keys == {sel[i].api_key : i \in 1..Len(sel)}
                \cup (IF SavePathDiffers(current, qbit_cfg) THEN {"save_path"} ELSE {})
    IN  [updates |->
             [k \in keys |->
                 IF k = "save_path"
                 THEN qbit_cfg.default_save_path
                 ELSE LET m == CHOOSE m \in {sel[i] : i \in 1..Len(sel)} : m.api_key = k
                      IN  DesiredPref(qbit_cfg, m)],
         changes |->
             (IF SavePathDiffers(current, qbit_cfg)
              THEN <<<<"Set default save path", qbit_cfg.default_save_path>>>>
              ELSE << >>)
             \o [i \in 1..Len(sel) |-> <<"Set", sel[i].api_key, DesiredPref(qbit_cfg, sel[i])>>]]

\* The service applying setPreferences.
ApplyPreferences(prefs, updates) ==
    [k \in DOMAIN prefs |-> IF k \in DOMAIN updates THEN updates[k] ELSE prefs[k]]

\* _set_preferences: one read, then at most one batched setPreferences.
_set_preferences ==
    /\ Running({"qbittorrent"}, "preferences")
    /\ UNCHANGED ctlVars
    /\ \E got \in BOOLEAN :
       LET qbit_cfg == config.qbittorrent
           u == PrefUpdates(remote.qbittorrent.preferences, qbit_cfg)
           call == WriteCall(rc.cl, "post", "api/v2/app/setPreferences", u.updates)
           read == Wire(rc.cl, "qbittorrent", "get", "api/v2/app/preferences")
           after == [rc EXCEPT !.phase = "categories"]
       IN  IF ~got THEN CallFails(read)
           ELSE IF DOMAIN u.updates = {} THEN NoWrite(read, after)
           ELSE Write(read, call, u.changes,
                      [remote EXCEPT !.qbittorrent.preferences = ApplyPreferences(@, u.updates)],
                      after)

\* _set_categories up to its loop: the read of the current categories.
_set_categories ==
    /\ Running({"qbittorrent"}, "categories")
    /\ UNCHANGED ctlVars
    /\ net' = net \cup Wire(rc.cl, "qbittorrent", "get", "api/v2/torrents/categories")
    /\ \E got \in BOOLEAN :
           rc' = IF ~got
                 THEN Raised(rc, "HTTPError")
                 ELSE IF config.qbittorrent.categories = << >>
                 THEN Returned(rc)
                 ELSE [rc EXCEPT !.phase = "category", !.i = 1,
                                 !.fetched = remote.qbittorrent.categories]
    /\ UNCHANGED remote

\* What the loop of _set_categories does for one declared category, given
\* the categories fetched before the loop.
CategoryAction(current_cats, cat_cfg) ==
    LET desired_path == Get(cat_cfg, "save_path", <<cat_cfg.name>>)
    IN  IF cat_cfg.name \notin DOMAIN current_cats
        THEN [path |-> "api/v2/torrents/createCategory", savePath |-> desired_path,
              change |-> <<"Created category", cat_cfg.name, desired_path>>]
        ELSE IF current_cats[cat_cfg.name].savePath # desired_path
        THEN [path |-> "api/v2/torrents/editCategory", savePath |-> desired_path,
              change |-> <<"Updated category path", cat_cfg.name, desired_path>>]
        ELSE [path |-> "", savePath |-> desired_path, change |-> << >>]

\* The service applying createCategory / editCategory.
ApplyCategory(cats, name, savePath) ==
    [k \in DOMAIN cats \cup {name} |->
        IF k = name THEN [savePath |-> savePath] ELSE cats[k]]

\* One pass of the loop of _set_categories; after the last category
\* configure_qbittorrent returns.
_set_categories_item ==
    /\ Running({"qbittorrent"}, "category")
    /\ UNCHANGED ctlVars
    /\ LET cats == config.qbittorrent.categories
           cat_cfg == cats[rc.i]
           a == CategoryAction(rc.fetched, cat_cfg)
           call == WriteCall(rc.cl, "post", a.path,
                             [category |-> cat_cfg.name, savePath |-> a.savePath])
           after == IF rc.i = Len(cats) THEN Returned(rc) ELSE [rc EXCEPT !.i = @ + 1]
       IN  IF a.path = "" THEN NoWrite({}, after)
           ELSE Write({}, call, <<a.change>>,
                      [remote EXCEPT !.qbittorrent.categories =
                          ApplyCategory(@, cat_cfg.name, a.savePath)],
                      after)

\* The states qBittorrent can be found in: each preference on either of two
\* values, each category absent or present with either of two paths.
PrefValues(cfg) ==
    [save_path : {cfg.qbittorrent.default_save_path, <<"/", "srv", "torrents">>},
     auto_tmm_enabled : {Bool(TRUE), Bool(FALSE)},
     torrent_content_layout : {Str("Original"), Str("Subfolder")},
     torrent_changed_tmm_enabled : {Bool(TRUE), Bool(FALSE)},
     save_path_changed_tmm_enabled : {Bool(FALSE)}]

CategoryValues ==
    UNION {[names -> [savePath : {<<"downloads", "tv">>, <<"downloads", "movies">>,
                                  <<"radarr">>}]] :
               names \in SUBSET {"sonarr", "radarr"}}

QbitRemotes(cfg) == [preferences : PrefValues(cfg), categories : CategoryValues]

(***************************************************************************)
(* Orchestrator (scripts/setup.py)                                         *)
(***************************************************************************)

\* Services named on one command line.
MaxRequested == 2

\* Map service names to their configure functions.
_CONFIGURE_FN(service_name) ==
    CASE service_name = "qbittorrent" -> "configure_qbittorrent"
      [] service_name \in {"sonarr", "sonarr2"} -> "configure_sonarr"
      [] service_name \in {"radarr", "radarr2"} -> "configure_radarr"
      [] service_name = "prowlarr" -> "configure_prowlarr"
      [] service_name = "jellyfin" -> "configure_jellyfin"
      [] service_name = "jellyseerr" -> "configure_jellyseerr"

\* func(config, service_name, dry_run=dry_run): the call enters the
\* configure function, which builds its client.
Enter(service_name, dry_run) ==
    LET func == _CONFIGURE_FN(service_name)
    IN  [NoRc EXCEPT
            !.svc = service_name,
            !.cl = NewClient(IF func = "configure_qbittorrent" THEN "qbit" ELSE "base", dry_run),
            !.phase = CASE func = "configure_qbittorrent" -> "login"
                        [] func \in {"configure_sonarr", "configure_radarr"} -> "root_folder"
                        [] func = "configure_prowlarr" -> "applications"
                        [] func = "configure_jellyfin" -> "libraries"
                        [] func = "configure_jellyseerr" -> "sonarr_servers"]

\* parse_services: "all", or the known names of a comma-separated list.
parse_services(raw) ==
    IF raw = {"all"} THEN Services ELSE {name \in raw : name \in Services}

(***************************************************************************)
(* Sonarr / Radarr reconciler (scripts/services/radarr.py; configure_sonarr *)
(* is the same algorithm with tvCategory in place of movieCategory)        *)
(***************************************************************************)

\* The category field of the Sonarr variant of the download client.
SonarrCategoryField == "tvCategory"

CategoryField(service_name) ==
    IF _CONFIGURE_FN(service_name) = "configure_sonarr"
    THEN SonarrCategoryField
    ELSE "movieCategory"

\* The id the service gives a new entry of a collection.
NewId(entries) ==
    IF entries = << >>
    THEN 1
    ELSE 1 + (CHOOSE m \in {entries[i].id : i \in 1..Len(entries)} :
                  \A j \in 1..Len(entries) : entries[j].id <= m)

\* The service replacing the entry that has the given id.
Replace(entries, id, entry) ==
    [i \in 1..Len(entries) |-> IF entries[i].id = id THEN entry ELSE entries[i]]

\* _ensure_root_folder: one read, one POST when the path is not listed.
_ensure_root_folder ==
    /\ Running(ArrNames, "root_folder")
    /\ UNCHANGED ctlVars
    /\ \E got \in BOOLEAN :
       LET inst == config.instances[rc.svc]
           folders == remote[rc.svc].rootfolder
           desired == inst.root_folder
           existing_paths == {folders[i].path : i \in 1..Len(folders)}
           read == Wire(rc.cl, rc.svc, "get", "api/v3/rootfolder")
           call == WriteCall(rc.cl, "post", "api/v3/rootfolder", [path |-> desired])
           after == [rc EXCEPT !.phase = "download_client"]
       IN  IF ~got THEN CallFails(read)
           ELSE IF desired \in existing_paths THEN NoWrite(read, after)
           ELSE Write(read, call, <<<<"Added root folder", desired>>>>,
                      [remote EXCEPT ![rc.svc].rootfolder =
                          Append(@, [id |-> NewId(@), path |-> desired])],
                      after)

\* The field values _ensure_download_client expects, in dict order.
ExpectedFields(cfg, inst) ==
    <<[name |-> "host", value |-> <<cfg.username, cfg.servername, "usbx.me">>],
      [name |-> "port", value |-> 443],
      [name |-> "urlBase", value |-> <<"/", "qbittorrent">>],
      [name |-> "username", value |-> cfg.qbittorrent.username],
      [name |-> "password", value |-> cfg.qbittorrent.password],
      [name |-> CategoryField(inst.name), value |-> Get(inst, "category", << >>)],
      [name |-> "useSsl", value |-> TRUE]>>

\* {f["name"]: f["value"] for f in fields}
FieldDict(fields) ==
    [n \in {fields[i].name : i \in 1..Len(fields)} |->
        LET last == CHOOSE i \in 1..Len(fields) :
                        /\ fields[i].name = n
                        /\ \A j \in 1..Len(fields) : fields[j].name = n => j <= i
        IN  fields[last].value]

_build_download_client_payload(fields, inst) ==
    [name |-> "qBittorrent",
     implementation |-> "QBittorrent",
     configContract |-> "QBittorrentSettings",
     enable |-> TRUE,
     protocol |-> "torrent",
     fields |-> fields]

\* The first entry whose implementation is QBittorrent, 0 when there is none.
ExistingClient(clients) ==
    IF \E i \in 1..Len(clients) : clients[i].implementation = "QBittorrent"
    THEN CHOOSE i \in 1..Len(clients) :
             /\ clients[i].implementation = "QBittorrent"
             /\ \A j \in 1..(i - 1) : clients[j].implementation # "QBittorrent"
    ELSE 0

\* A comparison that does not pass over the password.
NeedsUpdateOnAnyField(existing, expected) ==
    LET current_fields == FieldDict(existing.fields)
    IN  \E i \in 1..Len(expected) :
            \/ expected[i].name \notin DOMAIN current_fields
            \/ current_fields[expected[i].name] # expected[i].value

\* The comparison loop: some expected field other than the password is
\* missing from the entry or has another value.
NeedsUpdate(existing, expected) ==
    LET current_fields == FieldDict(existing.fields)
    IN  \E i \in 1..Len(expected) :
            /\ expected[i].name # "password"
            /\ \/ expected[i].name \notin DOMAIN current_fields
               \/ current_fields[expected[i].name] # expected[i].value

WithId(payload, id) == [k \in DOMAIN payload \cup {"id"} |-> IF k = "id" THEN id ELSE payload[k]]

\* _ensure_download_client: one read, then a POST when no QBittorrent entry
\* exists, a PUT of the full payload when a compared field differs.
_ensure_download_client ==
    /\ Running(ArrNames, "download_client")
    /\ UNCHANGED ctlVars
    /\ \E got \in BOOLEAN :
       LET inst == config.instances[rc.svc]
           clients == remote[rc.svc].downloadclient
           expected == ExpectedFields(config, inst)
           e == ExistingClient(clients)
           payload == _build_download_client_payload(expected, inst)
           read == Wire(rc.cl, rc.svc, "get", "api/v3/downloadclient")
           after == [rc EXCEPT !.phase = "media_management"]
       IN  IF ~got THEN CallFails(read)
           ELSE IF e = 0
           THEN Write(read,
                      WriteCall(rc.cl, "post", "api/v3/downloadclient", payload),
                      <<<<"Added qBittorrent download client">>>>,
                      [remote EXCEPT ![rc.svc].downloadclient =
                          Append(@, WithId(payload, NewId(@)))],
                      after)
           ELSE IF NeedsUpdate(clients[e], expected)
           THEN Write(read,
                      WriteCallTo(rc.cl, "put", "api/v3/downloadclient/{id}", clients[e].id,
                                  WithId(payload, clients[e].id)),
                      <<<<"Updated qBittorrent download client settings">>>>,
                      [remote EXCEPT ![rc.svc].downloadclient =
                          Replace(@, clients[e].id, WithId(payload, clients[e].id))],
                      after)
           ELSE NoWrite(read, after)

\* The updates and the change list _set_media_management builds from the
\* fetched settings.
MediaUpdates(current, mm_cfg) ==
    LET desired_hardlinks == ~Get(mm_cfg, "hardlinks", TRUE)
        desired_analyze == Get(mm_cfg, "analyze_video", FALSE)
        desired_propers == Get(mm_cfg, "propers_and_repacks", "doNotPrefer")
        h == current.hardlinksCopy # desired_hardlinks
        a == current.enableMediaInfo # desired_analyze
        p == current.downloadPropersAndRepacks # desired_propers
        keys == (IF h THEN {"hardlinksCopy"} ELSE {})
                \cup (IF a THEN {"enableMediaInfo"} ELSE {})
                \cup (IF p THEN {"downloadPropersAndRepacks"} ELSE {})
    IN  [updates |->
             [k \in keys |->
                 CASE k = "hardlinksCopy" -> desired_hardlinks
                   [] k = "enableMediaInfo" -> desired_analyze
                   [] k = "downloadPropersAndRepacks" -> desired_propers],
         changes |->
             (IF h THEN <<<<"Set hardlinks", IF ~desired_hardlinks THEN "enabled" ELSE "disabled">>>>
                   ELSE << >>)
             \o (IF a THEN <<<<"Set analyze video", desired_analyze>>>> ELSE << >>)
             \o (IF p THEN <<<<"Set propers/repacks", desired_propers>>>> ELSE << >>)]

\* A payload made of the updates alone.
UpdatesAlone(current, updates) == updates

\* {**current, **updates}
Merged(current, updates) ==
    [k \in DOMAIN current \cup DOMAIN updates |->
        IF k \in DOMAIN updates THEN updates[k] ELSE current[k]]

\* _set_media_management: one read, then at most one PUT of the merged settings.
_set_media_management ==
    /\ Running(ArrNames, "media_management")
    /\ UNCHANGED ctlVars
    /\ \E got \in BOOLEAN :
       LET current == remote[rc.svc].mediamanagement
           u == MediaUpdates(current, config.media_management)
           payload == Merged(current, u.updates)
           read == Wire(rc.cl, rc.svc, "get", "api/v3/config/mediamanagement")
           after == [rc EXCEPT !.phase = "tags"]
       IN  IF ~got THEN CallFails(read)
           ELSE IF DOMAIN u.updates = {} THEN NoWrite(read, after)
           ELSE Write(read,
                      WriteCall(rc.cl, "put", "api/v3/config/mediamanagement", payload),
                      u.changes,
                      [remote EXCEPT ![rc.svc].mediamanagement = payload],
                      after)

\* str.lower() on the tag labels and profile names in use.
Lower(label) ==
    CASE label = "Kids" -> "kids"
      [] label = "Anime" -> "anime"
      [] label = "UHD" -> "uhd"
      [] label \in {"English", "ENGLISH"} -> "english"
      [] OTHER -> label

DesiredTags(cfg, service_name) == Get(cfg.tags, service_name, << >>)

\* _ensure_tags up to its loop: nothing to do without declared tags,
\* otherwise the read of the existing tags.
_ensure_tags ==
    /\ Running(ArrNames, "tags")
    /\ UNCHANGED ctlVars
    /\ IF DesiredTags(config, rc.svc) = << >>
       THEN NoWrite({}, Returned(rc))
       ELSE \E got \in BOOLEAN :
                LET read == Wire(rc.cl, rc.svc, "get", "api/v3/tag")
                    existing_tags == remote[rc.svc].tag
                IN  IF ~got THEN CallFails(read)
                    ELSE NoWrite(read,
                                 [rc EXCEPT !.phase = "tag", !.i = 1,
                                            !.fetched = {Lower(existing_tags[i].label) :
                                                             i \in 1..Len(existing_tags)}])

\* One pass of the loop of _ensure_tags; after the last tag the configure
\* function returns.
_ensure_tags_item ==
    /\ Running(ArrNames, "tag")
    /\ UNCHANGED ctlVars
    /\ LET desired_tags == DesiredTags(config, rc.svc)
           tag == desired_tags[rc.i]
           existing_names == rc.fetched
           after == IF rc.i = Len(desired_tags) THEN Returned(rc) ELSE [rc EXCEPT !.i = @ + 1]
       IN  IF Lower(tag) \in existing_names THEN NoWrite({}, after)
           ELSE Write({}, WriteCall(rc.cl, "post", "api/v3/tag", [label |-> tag]),
                      <<<<"Created tag", tag>>>>,
                      [remote EXCEPT ![rc.svc].tag = Append(@, [id |-> NewId(@), label |-> tag])],
                      after)

(***************************************************************************)
(* Prowlarr reconciler (scripts/services/prowlarr.py)                      *)
(***************************************************************************)

\* The instances of the declaration, in its order.
InstanceOrder(cfg) == SelectSeq(ALL_SERVICES, LAMBDA n : n \in DOMAIN cfg.instances)

\* The instances of the given types that were asked for on the command line.
RequestedInstancesOfType(cfg, types) ==
    SelectSeq(InstanceOrder(cfg),
              LAMBDA n : Get(cfg.instances[n], "type", "") \in types /\ n \in requested)

\* config["instances"].items() filtered on the instance type.
InstancesOfType(cfg, types) ==
    SelectSeq(InstanceOrder(cfg), LAMBDA n : Get(cfg.instances[n], "type", "") \in types)

\* Arr instance types and their Prowlarr implementation/contract names.
_APP_TYPES(app_type) ==
    IF app_type = "sonarr"
    THEN [implementation |-> "Sonarr", configContract |-> "SonarrSettings"]
    ELSE [implementation |-> "Radarr", configContract |-> "RadarrSettings"]

\* name.replace("2", " 4K").title()
DisplayName(name) ==
    CASE name = "sonarr" -> "Sonarr"
      [] name = "sonarr2" -> "Sonarr 4K"
      [] name = "radarr" -> "Radarr"
      [] name = "radarr2" -> "Radarr 4K"
      [] OTHER -> name

\* existing_by_url: the applications keyed by their baseUrl field, a later
\* application replacing an earlier one with the same URL.
ExistingByUrl(existing_apps) ==
    LET url(app) == Get(FieldDict(app.fields), "baseUrl", << >>)
        keyed == {i \in 1..Len(existing_apps) : url(existing_apps[i]) # << >>}
    IN  [u \in {url(existing_apps[i]) : i \in keyed} |->
            existing_apps[CHOOSE i \in keyed :
                              /\ url(existing_apps[i]) = u
                              /\ \A j \in keyed : url(existing_apps[j]) = u => j <= i]]

AppExpectedFields(inst, prowlarr_url) ==
    <<[name |-> "baseUrl", value |-> inst.url],
      [name |-> "apiKey", value |-> inst.api_key],
      [name |-> "prowlarrUrl", value |-> prowlarr_url]>>

_build_app_payload(name, type_info, fields) ==
    [name |-> name,
     syncLevel |-> "fullSync",
     implementation |-> type_info.implementation,
     configContract |-> type_info.configContract,
     fields |-> fields]

\* A comparison that does not pass over the API key.
AppNeedsUpdateOnAnyField(existing, expected) ==
    LET current_fields == FieldDict(existing.fields)
    IN  \E i \in 1..Len(expected) :
            \/ expected[i].name \notin DOMAIN current_fields
            \/ current_fields[expected[i].name] # expected[i].value

\* The comparison loop of configure_prowlarr: a field other than the API key
\* is missing from the application or has another value.
AppNeedsUpdate(existing, expected) ==
    LET current_fields == FieldDict(existing.fields)
    IN  \E i \in 1..Len(expected) :
            /\ expected[i].name # "apiKey"
            /\ \/ expected[i].name \notin DOMAIN current_fields
               \/ current_fields[expected[i].name] # expected[i].value

\* configure_prowlarr up to its loop: the read of the applications.
configure_prowlarr ==
    /\ Running({"prowlarr"}, "applications")
    /\ UNCHANGED ctlVars
    /\ \E got \in BOOLEAN :
       LET read == Wire(rc.cl, rc.svc, "get", "api/v1/applications")
           arr_instances == InstancesOfType(config, {"sonarr", "radarr"})
       IN  IF ~got THEN CallFails(read)
           ELSE IF arr_instances = << >> THEN NoWrite(read, [rc EXCEPT !.phase = "sync"])
           ELSE NoWrite(read, [rc EXCEPT !.phase = "application", !.i = 1,
                                         !.fetched = ExistingByUrl(remote.prowlarr.applications)])

\* One pass of the loop over the Arr instances.
configure_prowlarr_app ==
    /\ Running({"prowlarr"}, "application")
    /\ UNCHANGED ctlVars
    /\ LET arr_instances == InstancesOfType(config, {"sonarr", "radarr"})
           name == arr_instances[rc.i]
           inst == config.instances[name]
           existing_by_url == rc.fetched
           expected == AppExpectedFields(inst, config.instances.prowlarr.url)
           display_name == DisplayName(name)
           payload == _build_app_payload(display_name, _APP_TYPES(inst.type), expected)
           after == IF rc.i = Len(arr_instances)
                    THEN [rc EXCEPT !.phase = "sync"]
                    ELSE [rc EXCEPT !.i = @ + 1]
       IN  IF inst.url \in DOMAIN existing_by_url
           THEN LET existing == existing_by_url[inst.url]
                IN  IF AppNeedsUpdate(existing, expected)
                    THEN Write({},
                               WriteCallTo(rc.cl, "put", "api/v1/applications/{id}",
                                           existing.id, WithId(payload, existing.id)),
                               <<<<"Updated Prowlarr app", display_name>>>>,
                               [remote EXCEPT !.prowlarr.applications =
                                   Replace(@, existing.id, WithId(payload, existing.id))],
                               after)
                    ELSE NoWrite({}, after)
           ELSE Write({},
                      WriteCall(rc.cl, "post", "api/v1/applications", payload),
                      <<<<"Added Prowlarr app", display_name>>>>,
                      [remote EXCEPT !.prowlarr.applications =
                          Append(@, WithId(payload, NewId(@)))],
                      after)

\* An end of configure_prowlarr that triggers the sync whatever the loop did.
configure_prowlarr_always_syncs ==
    /\ Running({"prowlarr"}, "sync")
    /\ UNCHANGED ctlVars
    /\ Write({},
             WriteCall(rc.cl, "post", "api/v1/command", [name |-> "ApplicationIndexerSync"]),
             <<<<"Triggered ApplicationIndexerSync">>>>,
             [remote EXCEPT !.prowlarr.commands = Append(@, "ApplicationIndexerSync")],
             Returned(rc))

\* After the loop: the indexer sync when anything changed, then the return.
configure_prowlarr_sync ==
    /\ Running({"prowlarr"}, "sync")
    /\ UNCHANGED ctlVars
    /\ IF rc.changes = << >>
       THEN NoWrite({}, Returned(rc))
       ELSE Write({},
                  WriteCall(rc.cl, "post", "api/v1/command", [name |-> "ApplicationIndexerSync"]),
                  <<<<"Triggered ApplicationIndexerSync">>>>,
                  [remote EXCEPT !.prowlarr.commands = Append(@, "ApplicationIndexerSync")],
                  Returned(rc))

(***************************************************************************)
(* Jellyfin reconciler (scripts/services/jellyfin.py)                      *)
(***************************************************************************)

\* Fallback library definitions if not specified in config.
_DEFAULT_LIBRARIES ==
    <<[name |-> "TV Shows", collectionType |-> "tvshows", path |-> <<"media", "all", "tv">>],
      [name |-> "TV Shows UHD", collectionType |-> "tvshows",
       path |-> <<"media", "all", "tv-uhd">>],
      [name |-> "Movies", collectionType |-> "movies", path |-> <<"media", "all", "movies">>],
      [name |-> "Movies UHD", collectionType |-> "movies",
       path |-> <<"media", "all", "movies-uhd">>]>>

Libraries(cfg) == Get(cfg.instances.jellyfin, "libraries", _DEFAULT_LIBRARIES)

\* configure_jellyfin up to its loop: the read of the virtual folders.
configure_jellyfin ==
    /\ Running({"jellyfin"}, "libraries")
    /\ UNCHANGED ctlVars
    /\ \E got \in BOOLEAN :
       LET read == Wire(rc.cl, rc.svc, "get", "Library/VirtualFolders")
           existing == remote.jellyfin.VirtualFolders
       IN  IF ~got THEN CallFails(read)
           ELSE NoWrite(read,
                        [rc EXCEPT !.phase = IF Libraries(config) = << >> THEN "refresh" ELSE "library",
                                   !.i = 1,
                                   !.flag = FALSE,
                                   !.fetched = {existing[i].Name : i \in 1..Len(existing)}])

\* A pass of the loop that creates the library without looking at the
\* existing names.
configure_jellyfin_library_unchecked ==
    /\ Running({"jellyfin"}, "library")
    /\ UNCHANGED ctlVars
    /\ LET libraries == Libraries(config)
           lib == libraries[rc.i]
           lib_path == config.home_dir \o lib.path
           after == IF rc.i = Len(libraries)
                    THEN [rc EXCEPT !.phase = "refresh"]
                    ELSE [rc EXCEPT !.i = @ + 1]
           params == [name |-> lib.name, collectionType |-> lib.collectionType,
                      paths |-> <<lib_path>>, refreshLibrary |-> "false"]
       IN  Write({},
                 WriteCall(rc.cl, "post", "Library/VirtualFolders", params),
                 <<<<"Created library", lib.name, lib_path>>>>,
                 [remote EXCEPT !.jellyfin.VirtualFolders =
                     Append(@, [Name |-> lib.name, CollectionType |-> lib.collectionType,
                                Locations |-> <<lib_path>>])],
                 [after EXCEPT !.flag = TRUE])

\* One pass of the loop over the libraries.
configure_jellyfin_library ==
    /\ Running({"jellyfin"}, "library")
    /\ UNCHANGED ctlVars
    /\ LET libraries == Libraries(config)
           lib == libraries[rc.i]
           lib_path == config.home_dir \o lib.path
           existing_names == rc.fetched
           after == IF rc.i = Len(libraries)
                    THEN [rc EXCEPT !.phase = "refresh"]
                    ELSE [rc EXCEPT !.i = @ + 1]
           params == [name |-> lib.name, collectionType |-> lib.collectionType,
                      paths |-> <<lib_path>>, refreshLibrary |-> "false"]
       IN  IF lib.name \in existing_names
           THEN NoWrite({}, after)
           ELSE Write({},
                      WriteCall(rc.cl, "post", "Library/VirtualFolders", params),
                      <<<<"Created library", lib.name, lib_path>>>>,
                      [remote EXCEPT !.jellyfin.VirtualFolders =
                          Append(@, [Name |-> lib.name, CollectionType |-> lib.collectionType,
                                     Locations |-> <<lib_path>>])],
                      [after EXCEPT !.flag = TRUE])

\* After the loop: one library refresh if anything was created, then the return.
configure_jellyfin_refresh ==
    /\ Running({"jellyfin"}, "refresh")
    /\ UNCHANGED ctlVars
    /\ IF ~rc.flag
       THEN NoWrite({}, Returned(rc))
       ELSE Write({},
                  WriteCall(rc.cl, "post", "Library/Refresh", << >>),
                  <<<<"Triggered library refresh">>>>,
                  [remote EXCEPT !.jellyfin.refreshes = @ + 1],
                  Returned(rc))

(***************************************************************************)
(* Jellyseerr reconciler (scripts/services/jellyseerr.py)                  *)
(***************************************************************************)

\* Quality profile names created by Recyclarr templates.
_QUALITY_PROFILES(name) ==
    CASE name = "sonarr" -> "WEB-1080p"
      [] name = "sonarr2" -> "WEB-2160p"
      [] name = "radarr" -> "HD Bluray + WEB"
      [] name = "radarr2" -> "UHD Bluray + WEB"
      [] OTHER -> ""

\* Which instances are default for standard vs 4K requests.
_DEFAULT_STANDARD == {"sonarr", "radarr"}
_DEFAULT_4K == {"sonarr2", "radarr2"}

\* The first server whose baseUrl is the given one: its index, 0 for None.
_find_existing_server(existing, base_url) ==
    LET hits == {i \in 1..Len(existing) : Get(existing[i], "baseUrl", << >>) = base_url}
    IN  IF hits = {} THEN 0 ELSE CHOOSE i \in hits : \A j \in hits : i <= j

\* A resolver without the fallback to the first listed profile.
_resolve_profile_exact(profiles, got, profile_name) ==
    LET named == {i \in 1..Len(profiles) : profiles[i].name = profile_name}
    IN  IF profile_name = "" \/ ~got \/ named = {}
        THEN [id |-> 0, name |-> ""]
        ELSE profiles[CHOOSE i \in named : \A j \in named : i <= j]

\* _resolve_profile: (id, name) of the named quality profile of the Arr
\* instance, else of its first profile, else (0, ""); `got` is whether the
\* read of the Arr instance succeeded.
_resolve_profile(profiles, got, profile_name) ==
    LET named == {i \in 1..Len(profiles) : profiles[i].name = profile_name}
    IN  IF profile_name = "" \/ ~got \/ profiles = << >>
        THEN [id |-> 0, name |-> ""]
        ELSE IF named # {}
        THEN profiles[CHOOSE i \in named : \A j \in named : i <= j]
        ELSE profiles[1]

\* A resolver that takes the first profile listed, whatever its name.
_resolve_language_first(profiles, got) ==
    IF ~got \/ profiles = << >> THEN 1 ELSE profiles[1].id

\* _resolve_language_profile_id: the id of the profile named "english" in
\* any case, else of the first profile, else (or on any failure) 1.
_resolve_language_profile_id(profiles, got) ==
    LET english == {i \in 1..Len(profiles) : Lower(profiles[i].name) = "english"}
    IN  IF ~got \/ profiles = << >>
        THEN 1
        ELSE IF english # {}
        THEN profiles[CHOOSE i \in english : \A j \in english : i <= j].id
        ELSE profiles[1].id

ServerPayload(cfg, name, profile) ==
    LET inst == cfg.instances[name]
    IN  [name |-> DisplayName(name),
         hostname |-> <<cfg.username, cfg.servername, "usbx.me">>,
         port |-> 443,
         useSsl |-> TRUE,
         apiKey |-> inst.api_key,
         baseUrl |-> Get(inst, "app_path", << >>),
         activeProfileId |-> profile.id,
         activeProfileName |-> profile.name,
         activeDirectory |-> Get(inst, "root_folder", << >>),
         isDefault |-> name \in _DEFAULT_STANDARD,
         is4k |-> name \in _DEFAULT_4K]

SonarrServerPayload(cfg, name, profile, lang_profile_id) ==
    LET base == ServerPayload(cfg, name, profile)
    IN  [k \in DOMAIN base \cup {"activeLanguageProfileId", "enableSeasonFolders"} |->
            CASE k = "activeLanguageProfileId" -> lang_profile_id
              [] k = "enableSeasonFolders" -> TRUE
              [] OTHER -> base[k]]

RadarrServerPayload(cfg, name, profile) ==
    LET base == ServerPayload(cfg, name, profile)
    IN  [k \in DOMAIN base \cup {"minimumAvailability"} |->
            IF k = "minimumAvailability" THEN "released" ELSE base[k]]

\* The read that opens _configure_sonarr_servers / _configure_radarr_servers;
\* with no instance of the type the function returns at once.
ReadServers(type, path, next) ==
    \E got \in BOOLEAN :
        LET read == Wire(rc.cl, rc.svc, "get", path)
            instances == InstancesOfType(config, {type})
        IN  IF ~got THEN CallFails(read)
            ELSE IF instances = << >> THEN NoWrite(read, next)
            ELSE NoWrite(read, [rc EXCEPT !.phase = type \o "_server", !.i = 1,
                                          !.fetched = remote.jellyseerr[type]])

\* One pass of the loop over the instances of the type: the profile lookups
\* on the Arr instance (their failures are caught), then a PUT when a server
\* with the instance's baseUrl was read, a POST otherwise.
ConfigureServer(type, label, next) ==
    \E gotq \in BOOLEAN, gotl \in (IF type = "sonarr" THEN BOOLEAN ELSE {TRUE}) :
        LET instances == InstancesOfType(config, {type})
            name == instances[rc.i]
            inst == config.instances[name]
            existing == rc.fetched
            found == _find_existing_server(existing, Get(inst, "app_path", << >>))
            profile_name == _QUALITY_PROFILES(name)
            profile == _resolve_profile(remote[name].qualityprofile, gotq, profile_name)
            lookups == (IF profile_name = "" THEN {}
                        ELSE {[svc |-> name, method |-> "GET", path |-> "api/v3/qualityprofile"]})
                       \cup
                       (IF type = "sonarr"
                        THEN {[svc |-> name, method |-> "GET", path |-> "api/v3/languageprofile"]}
                        ELSE {})
            payload == IF type = "sonarr"
                       THEN SonarrServerPayload(config, name, profile,
                                _resolve_language_profile_id(remote[name].languageprofile, gotl))
                       ELSE RadarrServerPayload(config, name, profile)
            after == IF rc.i = Len(instances) THEN next ELSE [rc EXCEPT !.i = @ + 1]
        IN  IF found # 0
            THEN Write(lookups,
                       WriteCallTo(rc.cl, "put", "api/v1/settings/" \o type \o "/{id}",
                                   existing[found].id, payload),
                       <<<<"Updated Jellyseerr " \o label \o " server", name>>>>,
                       [remote EXCEPT !.jellyseerr[type] =
                           Replace(@, existing[found].id, WithId(payload, existing[found].id))],
                       after)
            ELSE Write(lookups,
                       WriteCall(rc.cl, "post", "api/v1/settings/" \o type, payload),
                       <<<<"Added Jellyseerr " \o label \o " server", name>>>>,
                       [remote EXCEPT !.jellyseerr[type] = Append(@, WithId(payload, NewId(@)))],
                       after)

_configure_sonarr_servers ==
    /\ Running({"jellyseerr"}, "sonarr_servers")
    /\ UNCHANGED ctlVars
    /\ ReadServers("sonarr", "api/v1/settings/sonarr", [rc EXCEPT !.phase = "radarr_servers"])

_configure_sonarr_server ==
    /\ Running({"jellyseerr"}, "sonarr_server")
    /\ UNCHANGED ctlVars
    /\ ConfigureServer("sonarr", "Sonarr", [rc EXCEPT !.phase = "radarr_servers"])

_configure_radarr_servers ==
    /\ Running({"jellyseerr"}, "radarr_servers")
    /\ UNCHANGED ctlVars
    /\ ReadServers("radarr", "api/v1/settings/radarr", Returned(rc))

_configure_radarr_server ==
    /\ Running({"jellyseerr"}, "radarr_server")
    /\ UNCHANGED ctlVars
    /\ ConfigureServer("radarr", "Radarr", Returned(rc))

(***************************************************************************)
(* The states the services can be found in                                 *)
(***************************************************************************)

OtherFields(expected, name, value) ==
    [i \in 1..Len(expected) |->
        IF expected[i].name = name THEN [name |-> name, value |-> value] ELSE expected[i]]

ClientEntry(id, implementation, fields) ==
    [id |-> id, name |-> "client " \o <<"1", "2", "3", "4", "5">>[id],
     implementation |-> implementation,
     configContract |-> "Settings", enable |-> TRUE, protocol |-> "torrent",
     fields |-> fields]

DownloadClientValues(cfg, inst) ==
    LET expected == ExpectedFields(cfg, inst)
        drifted == OtherFields(expected, CategoryField(inst.name), <<"cat", "old">>)
        rekeyed == OtherFields(expected, "password", <<"old password">>)
    IN  {<< >>,
         <<ClientEntry(1, "QBittorrent", expected)>>,
         <<ClientEntry(1, "QBittorrent", drifted)>>,
         <<ClientEntry(1, "QBittorrent", rekeyed)>>,
         <<ClientEntry(1, "Transmission", << >>)>>,
         <<ClientEntry(3, "Transmission", << >>),
           ClientEntry(5, "QBittorrent", OtherFields(drifted, "password", <<"********">>))>>,
         <<ClientEntry(1, "QBittorrent", drifted), ClientEntry(2, "QBittorrent", expected)>>}

MediaValues ==
    [hardlinksCopy : BOOLEAN, enableMediaInfo : BOOLEAN,
     downloadPropersAndRepacks : {"doNotPrefer", "preferAndUpgrade"},
     recycleBin : {<<"/", "trash">>}]

TagValues(cfg, service_name) ==
    IF DesiredTags(cfg, service_name) = << >>
    THEN {<< >>}
    ELSE {<< >>,
          <<[id |-> 1, label |-> "kids"]>>,
          <<[id |-> 1, label |-> "Anime"], [id |-> 2, label |-> "4k"],
            [id |-> 3, label |-> "uhd"]>>}

ArrRemotes(cfg, service_name) ==
    LET inst == cfg.instances[service_name]
    IN  [rootfolder : {<< >>,
                       <<[id |-> 1, path |-> inst.root_folder]>>,
                       <<[id |-> 1, path |-> <<"/", "srv", "media">>]>>},
         downloadclient : DownloadClientValues(cfg, inst),
         mediamanagement : MediaValues,
         tag : TagValues(cfg, service_name),
         qualityprofile : {<< >>},
         languageprofile : {<< >>}]

FreshArr ==
    [rootfolder |-> << >>,
     downloadclient |-> << >>,
     mediamanagement |->
         [hardlinksCopy |-> TRUE, enableMediaInfo |-> TRUE,
          downloadPropersAndRepacks |-> "preferAndUpgrade", recycleBin |-> <<"/", "trash">>],
     tag |-> << >>,
     qualityprofile |-> << >>,
     languageprofile |-> << >>]

\* The quality and language profiles the Arr instances can hold: none, one
\* stock profile, or also the profile the Recyclarr template creates.
StockProfiles == <<[id |-> 1, name |-> "Any"]>>
TemplateProfiles(name) == Append(StockProfiles, [id |-> 4, name |-> _QUALITY_PROFILES(name)])

LanguageProfileValues ==
    {<< >>,
     <<[id |-> 3, name |-> "German"]>>,
     <<[id |-> 3, name |-> "German"], [id |-> 2, name |-> "English"]>>}

\* An application entry as Prowlarr lists it.
AppEntry(cfg, name, id, prowlarr_url, api_key) ==
    WithId(_build_app_payload(DisplayName(name), _APP_TYPES(cfg.instances[name].type),
               <<[name |-> "baseUrl", value |-> cfg.instances[name].url],
                 [name |-> "apiKey", value |-> api_key],
                 [name |-> "prowlarrUrl", value |-> prowlarr_url]>>), id)

ProwlarrRemotes(cfg) ==
    LET url == cfg.instances.prowlarr.url
        old == <<cfg.base_url, <<"/", "old">>>>
        key(n) == cfg.instances[n].api_key
        apps == {<< >>,
                 <<AppEntry(cfg, "sonarr", 1, url, key("sonarr"))>>,
                 <<AppEntry(cfg, "sonarr", 1, old, key("sonarr"))>>,
                 <<AppEntry(cfg, "sonarr", 1, url, <<"old key">>)>>,
                 <<AppEntry(cfg, "radarr", 2, url, key("radarr")),
                   AppEntry(cfg, "sonarr", 5, url, key("sonarr"))>>,
                 <<[id |-> 1, name |-> "Lidarr", syncLevel |-> "fullSync",
                    implementation |-> "Lidarr", configContract |-> "LidarrSettings",
                    fields |-> << >>]>>,
                 <<AppEntry(cfg, "sonarr", 1, url, key("sonarr")),
                   AppEntry(cfg, "sonarr2", 2, url, key("sonarr2")),
                   AppEntry(cfg, "radarr", 3, url, key("radarr")),
                   AppEntry(cfg, "radarr2", 4, url, key("radarr2"))>>,
                 <<AppEntry(cfg, "sonarr", 1, old, key("sonarr")),
                   AppEntry(cfg, "sonarr", 2, url, key("sonarr"))>>}
    IN  [applications : apps, commands : {<< >>}]

JellyfinRemotes(cfg) ==
    LET libraries == Libraries(cfg)
        all == [i \in 1..Len(libraries) |->
                   [Name |-> libraries[i].name,
                    CollectionType |-> libraries[i].collectionType,
                    Locations |-> <<cfg.home_dir \o libraries[i].path>>]]
        music == [Name |-> "Music", CollectionType |-> "music",
                  Locations |-> <<<<"/", "srv", "music">>>>]
        moved == [Name |-> "Movies", CollectionType |-> "movies",
                  Locations |-> <<<<"/", "srv", "movies">>>>]
    IN  [VirtualFolders : {<< >>, SubSeq(all, 1, 1), all, <<music>>, <<music, moved>>},
         refreshes : {0}]

ServerValues(cfg, type) ==
    LET names == InstancesOfType(cfg, {type})
        stock == [id |-> 1, name |-> "Any"]
        payload(n) == IF type = "sonarr"
                      THEN SonarrServerPayload(cfg, n, stock, 1)
                      ELSE RadarrServerPayload(cfg, n, stock)
    IN  <<<< >>,
          <<WithId(payload(names[1]), 0)>>,
          <<WithId([payload(names[1]) EXCEPT !.baseUrl = <<"/", "other">>], 0),
            WithId(payload(names[2]), 1)>>>>

JellyseerrRemotes(cfg) ==
    {[sonarr |-> ServerValues(cfg, "sonarr")[k], radarr |-> ServerValues(cfg, "radarr")[k]] :
        k \in 1..3}

(***************************************************************************)
(* Specifications                                                          *)
(***************************************************************************)

\* The state of each service before the run.
DefaultRemote(cfg) ==
    [s \in Services |->
        CASE s = "qbittorrent" ->
                 [preferences |->
                      [save_path |-> <<"/", "srv", "torrents">>,
                       auto_tmm_enabled |-> Bool(FALSE),
                       torrent_content_layout |-> Str("Subfolder"),
                       torrent_changed_tmm_enabled |-> Bool(FALSE),
                       save_path_changed_tmm_enabled |-> Bool(FALSE)],
                  categories |-> EmptyDict]
          [] s \in ArrNames -> FreshArr
          [] s = "prowlarr" -> [applications |-> << >>, commands |-> << >>]
          [] s = "jellyfin" -> [VirtualFolders |-> << >>, refreshes |-> 0]
          [] s = "jellyseerr" -> [sonarr |-> << >>, radarr |-> << >>]]

\* The Arr instances holding the given profiles.
WithProfiles(rem, quality, language) ==
    [s \in DOMAIN rem |->
        IF s \in ArrNames
        THEN [rem[s] EXCEPT !.qualityprofile = quality[s], !.languageprofile = language]
        ELSE rem[s]]

\* The profiles Jellyseerr's reconciler can find on the Arr instances.
ProfileWorlds(s) ==
    IF s = "jellyseerr"
    THEN {[quality |-> [n \in ArrNames |-> IF n = "radarr2" THEN << >> ELSE q[n]],
           language |-> l] :
              q \in {[n \in ArrNames |-> StockProfiles],
                     [n \in ArrNames |-> TemplateProfiles(n)]},
              l \in LanguageProfileValues}
    ELSE {[quality |-> [n \in ArrNames |-> << >>], language |-> << >>]}

Remotes(s, cfg) ==
    CASE s = "qbittorrent" -> QbitRemotes(cfg)
      [] s \in ArrNames -> ArrRemotes(cfg, s)
      [] s = "prowlarr" -> ProwlarrRemotes(cfg)
      [] s = "jellyfin" -> JellyfinRemotes(cfg)
      [] s = "jellyseerr" -> JellyseerrRemotes(cfg)

RunIdle ==
    /\ args = [services |-> {}, dry_run |-> FALSE, decl |-> "standard"]
    /\ env = FullEnv
    /\ config = NoConfig
    /\ requested = {}
    /\ reachable = {}
    /\ probed = << >>
    /\ pc = "idle"
    /\ idx = 0
    /\ summary = EmptyDict
    /\ order = << >>
    /\ remote = EmptyDict
    /\ rc = NoRc
    /\ net = {}
    /\ exit_code = -1
    /\ prev = NoRc

\* The client adapter on its own: calls on one freshly constructed client
\* of either kind, dry-run on or off.
InitHttp ==
    /\ RunIdle
    /\ HttpIdle
    /\ client \in [cls : {"base", "qbit"}, dry_run : BOOLEAN, authenticated : {FALSE}]

NextHttp ==
    \/ \E api \in Apis \cup {"login"}, path \in Paths : Invoke(api, path)
    \/ \E resp \in Responses : Attempt(resp)
    \/ Complete

SpecHttp == InitHttp /\ [][NextHttp]_vars

\* One reconciler on its own, called with a resolved configuration against
\* a service in any of its states, and called once more when it returns.
\* The declarations that differ in what the reconciler of s reads.
DeclarationsFor(s) ==
    IF s \in {"prowlarr", "jellyseerr"} THEN {"standard"} ELSE Declarations

InitReconcile ==
    /\ client = NewClient("base", FALSE)
    /\ HttpIdle
    /\ \E s \in Services, dry \in BOOLEAN :
       \E d \in DeclarationsFor(s) :
           /\ args = [services |-> {s}, dry_run |-> dry, decl |-> d]
           /\ env = FullEnv
           /\ config = load_config(Declaration(d), FullEnv)
           /\ requested = {s}
           /\ reachable = {s}
           /\ probed = [n \in {s} |-> "ok"]
           /\ rc = Enter(s, dry)
           /\ \E r \in Remotes(s, config), w \in ProfileWorlds(s) :
                  remote = [WithProfiles(DefaultRemote(config), w.quality, w.language)
                                EXCEPT ![s] = r]
    /\ pc = "reconcile"
    /\ idx = 0
    /\ summary = EmptyDict
    /\ order = << >>
    /\ net = {}
    /\ exit_code = -1
    /\ prev = NoRc

\* The reconciler has returned and is invoked again with the same arguments.
Again ==
    /\ pc = "reconcile"
    /\ rc.result = "return"
    /\ prev.result = "none"
    /\ prev' = rc
    /\ rc' = Enter(rc.svc, args.dry_run)
    /\ UNCHANGED <<httpVars, args, env, config, requested, reachable, probed, pc, idx,
                   summary, order, exit_code, remote, net>>

NextReconcile ==
    \/ configure_qbittorrent
    \/ _set_preferences
    \/ _set_categories
    \/ _set_categories_item
    \/ _ensure_root_folder
    \/ _ensure_download_client
    \/ _set_media_management
    \/ _ensure_tags
    \/ _ensure_tags_item
    \/ configure_prowlarr
    \/ configure_prowlarr_app
    \/ configure_prowlarr_sync
    \/ configure_jellyfin
    \/ configure_jellyfin_library
    \/ configure_jellyfin_refresh
    \/ _configure_sonarr_servers
    \/ _configure_sonarr_server
    \/ _configure_radarr_servers
    \/ _configure_radarr_server
    \/ Again

SpecReconcile == InitReconcile /\ [][NextReconcile]_vars

(***************************************************************************)
(* Connectivity prober (scripts/validate.py)                               *)
(***************************************************************************)

\* The request each _check_* function sends for the service.
CheckRequest(cfg, service_name) ==
    CASE service_name = "qbittorrent" ->
             [svc |-> service_name, method |-> "POST", path |-> LoginPath]
      [] service_name = "jellyfin" ->
             [svc |-> service_name, method |-> "GET", path |-> "System/Info"]
      [] service_name = "jellyseerr" ->
             [svc |-> service_name, method |-> "GET", path |-> "api/v1/status"]
      [] OTHER ->
             [svc |-> service_name, method |-> "GET",
              path |-> IF Get(cfg.instances[service_name], "type", service_name)
                              \in {"sonarr", "radarr"}
                       THEN "api/v3/system/status"
                       ELSE "api/v1/system/status"]

\* What the probed service can answer to the check request.
ProbeAnswers == {"ok", "network error", "bad credentials"}

\* How a _check_* call ends: config["instances"][service_name] raises
\* KeyError for a service without an entry, before any request; otherwise
\* the client call returns or raises with the service's answer.
_check(cfg, service_name, answer) ==
    IF service_name # "qbittorrent" /\ service_name \notin DOMAIN cfg.instances
    THEN "missing instance"
    ELSE answer

\* A probe refused for its credentials counts the service reachable too.
CompletesOrRefused(ended) == ended \in {"ok", "bad credentials"}

\* reachable.add(service_name) is reached when the check did not raise.
Completes(ended) == ended = "ok"

(***************************************************************************)
(* Orchestrator (scripts/setup.py, main)                                   *)
(***************************************************************************)

\* The environments a run can be started in: complete, a variable absent,
\* a variable present but empty.
Envs ==
    {FullEnv,
     [k \in EnvNames \ {<<"QBIT_PASS">>} |-> FullEnv[k]],
     [FullEnv EXCEPT ![<<"API_KEY", "jellyfin">>] = << >>]}

\* The --services lists a run can be given (bounded in length).
ServiceLists ==
    {S \in SUBSET (Services \cup {"unknown"}) : Cardinality(S) <= MaxRequested}

\* load_config, parse_services and SummaryLogger(): the run up to validate.
LoadConfig ==
    /\ pc = "start"
    /\ \A key \in RequiredEnv(Declaration(args.decl)) : ~Unset(env, key)
    /\ config' = load_config(Declaration(args.decl), env)
    /\ requested' = parse_services(args.services)
    /\ summary' = EmptyDict
    /\ order' = << >>
    /\ pc' = "validate"
    /\ UNCHANGED <<httpVars, args, env, reachable, probed, idx, remote, rc, net,
                   exit_code, prev>>

\* load_config raises ValueError for a missing variable; main does not catch
\* it, so the process ends with a traceback and status 1.
LoadConfigRaises ==
    /\ pc = "start"
    /\ \E key \in RequiredEnv(Declaration(args.decl)) : Unset(env, key)
    /\ pc' = "aborted"
    /\ exit_code' = 1
    /\ UNCHANGED <<httpVars, args, env, config, requested, reachable, probed, idx,
                   summary, order, remote, rc, net, prev>>

\* One pass of validate's loop over the requested set (in set order): the
\* check request goes out; the service is reachable unless the check raised.
Probe ==
    /\ pc = "validate"
    /\ \E service_name \in requested \ DOMAIN probed, answer \in ProbeAnswers :
           LET ended == _check(config, service_name, answer)
           IN  /\ probed' = [n \in DOMAIN probed \cup {service_name} |->
                                IF n = service_name THEN ended ELSE probed[n]]
               /\ net' = IF ended = "missing instance"
                         THEN net
                         ELSE net \cup {CheckRequest(config, service_name)}
               /\ reachable' = IF Completes(ended)
                               THEN reachable \cup {service_name}
                               ELSE reachable
    /\ UNCHANGED <<httpVars, args, env, config, requested, pc, idx, summary, order, remote, rc,
                   exit_code, prev>>

\* validate returns; main enters its loop over ALL_SERVICES.
EndValidate ==
    /\ pc = "validate"
    /\ DOMAIN probed = requested
    /\ pc' = "loop"
    /\ idx' = 1
    /\ UNCHANGED <<httpVars, args, env, config, requested, reachable, probed, summary, order,
                   remote, rc, net, exit_code, prev>>

InLoop == pc = "loop" /\ idx <= Len(ALL_SERVICES)

\* if service_name not in requested: continue
Continue ==
    /\ InLoop
    /\ ALL_SERVICES[idx] \notin requested
    /\ idx' = idx + 1
    /\ UNCHANGED <<httpVars, args, env, config, requested, reachable, probed, pc, summary, order,
                   remote, rc, net, exit_code, prev>>

\* if service_name not in reachable: log_skip(service_name, "unreachable")
SkipUnreachable ==
    /\ InLoop
    /\ ALL_SERVICES[idx] \in requested
    /\ ALL_SERVICES[idx] \notin reachable
    /\ summary' = log_skip(summary, ALL_SERVICES[idx], "unreachable")
    /\ order' = Inserted(order, ALL_SERVICES[idx])
    /\ idx' = idx + 1
    /\ UNCHANGED <<httpVars, args, env, config, requested, reachable, probed, pc, remote,
                   rc, net, exit_code, prev>>

\* mark_in_progress, then the call of the service's configure function.
Begin ==
    /\ InLoop
    /\ ALL_SERVICES[idx] \in requested
    /\ ALL_SERVICES[idx] \in reachable
    /\ summary' = mark_in_progress(summary, ALL_SERVICES[idx])
    /\ order' = Inserted(order, ALL_SERVICES[idx])
    /\ rc' = Enter(ALL_SERVICES[idx], args.dry_run)
    /\ pc' = "reconcile"
    /\ UNCHANGED <<httpVars, args, env, config, requested, reachable, probed, idx, remote,
                   net, exit_code, prev>>

\* The configure function returned: mark_success with its changes.
Succeed ==
    /\ pc = "reconcile"
    /\ rc.result = "return"
    /\ summary' = mark_success(summary, rc.svc, rc.changes)
    /\ order' = Inserted(order, rc.svc)
    /\ prev' = rc
    /\ rc' = NoRc
    /\ pc' = "loop"
    /\ idx' = idx + 1
    /\ UNCHANGED <<httpVars, args, env, config, requested, reachable, probed, remote, net,
                   exit_code>>

FailEndsLoop ==
    /\ pc = "reconcile"
    /\ rc.result = "raise"
    /\ summary' = mark_failed(summary, rc.svc, rc.error)
    /\ order' = Inserted(order, rc.svc)
    /\ prev' = rc
    /\ rc' = NoRc
    /\ pc' = "loop"
    /\ idx' = Len(ALL_SERVICES) + 1
    /\ UNCHANGED <<httpVars, args, env, config, requested, reachable, probed, remote, net,
                   exit_code>>

\* A handler that puts the failed service back as it was before the run.
FailReverts ==
    /\ pc = "reconcile"
    /\ rc.result = "raise"
    /\ summary' = mark_failed(summary, rc.svc, rc.error)
    /\ order' = Inserted(order, rc.svc)
    /\ prev' = rc
    /\ rc' = NoRc
    /\ pc' = "loop"
    /\ idx' = idx + 1
    /\ remote' = [remote EXCEPT ![rc.svc] = DefaultRemote(config)[rc.svc]]
    /\ UNCHANGED <<httpVars, args, env, config, requested, reachable, probed, net,
                   exit_code>>

\* A handler that also records the changes made before the exception.
FailKeepsChanges ==
    /\ pc = "reconcile"
    /\ rc.result = "raise"
    /\ summary' = mark_failed([_ensure(summary, rc.svc) EXCEPT ![rc.svc].changes =
                                   @ \o rc.changes],
                              rc.svc, rc.error)
    /\ order' = Inserted(order, rc.svc)
    /\ prev' = rc
    /\ rc' = NoRc
    /\ pc' = "loop"
    /\ idx' = idx + 1
    /\ UNCHANGED <<httpVars, args, env, config, requested, reachable, probed, remote, net,
                   exit_code>>

\* except Exception: mark_failed with the exception's text.
Fail ==
    /\ pc = "reconcile"
    /\ rc.result = "raise"
    /\ summary' = mark_failed(summary, rc.svc, rc.error)
    /\ order' = Inserted(order, rc.svc)
    /\ prev' = rc
    /\ rc' = NoRc
    /\ pc' = "loop"
    /\ idx' = idx + 1
    /\ UNCHANGED <<httpVars, args, env, config, requested, reachable, probed, remote, net,
                   exit_code>>

\* summary.print_summary() after the loop.
PrintSummary ==
    /\ pc = "loop"
    /\ idx > Len(ALL_SERVICES)
    /\ pc' = "printed"
    /\ UNCHANGED <<httpVars, args, env, config, requested, reachable, probed, idx, summary, order,
                   remote, rc, net, exit_code, prev>>

\* sys.exit(1 if summary.has_failures() else 0)
Exit ==
    /\ pc = "printed"
    /\ pc' = "exit"
    /\ exit_code' = IF has_failures(summary) THEN 1 ELSE 0
    /\ UNCHANGED <<httpVars, args, env, config, requested, reachable, probed, idx, summary, order,
                   remote, rc, net, prev>>

\* A run of setup.py: any bounded service list, either mode, either
\* declaration, any of the environments, services as installed.
Init ==
    /\ client = NewClient("base", FALSE)
    /\ HttpIdle
    /\ args \in [services : ServiceLists, dry_run : BOOLEAN, decl : RunDeclarations]
    /\ env \in Envs
    /\ config = NoConfig
    /\ requested = {}
    /\ reachable = {}
    /\ probed = << >>
    /\ pc = "start"
    /\ idx = 0
    /\ summary = EmptyDict
    /\ order = << >>
    /\ remote = DefaultRemote(load_config(Declaration(args.decl), FullEnv))
    /\ rc = NoRc
    /\ net = {}
    /\ exit_code = -1
    /\ prev = NoRc

Next ==
    \/ LoadConfig
    \/ LoadConfigRaises
    \/ Probe
    \/ EndValidate
    \/ Continue
    \/ SkipUnreachable
    \/ Begin
    \/ configure_qbittorrent
    \/ _set_preferences
    \/ _set_categories
    \/ _set_categories_item
    \/ _ensure_root_folder
    \/ _ensure_download_client
    \/ _set_media_management
    \/ _ensure_tags
    \/ _ensure_tags_item
    \/ configure_prowlarr
    \/ configure_prowlarr_app
    \/ configure_prowlarr_sync
    \/ configure_jellyfin
    \/ configure_jellyfin_library
    \/ configure_jellyfin_refresh
    \/ _configure_sonarr_servers
    \/ _configure_sonarr_server
    \/ _configure_radarr_servers
    \/ _configure_radarr_server
    \/ Succeed
    \/ Fail
    \/ PrintSummary
    \/ Exit

Spec == Init /\ [][Next]_vars

(***************************************************************************)
(* main started against a Prowlarr that an earlier run may have configured *)
(***************************************************************************)

\* The applications Prowlarr holds when main starts: none, or the Sonarr
\* application as an earlier run left it.
AppsBefore(cfg) ==
    {<< >>,
     <<AppEntry(cfg, "sonarr", 1, cfg.instances.prowlarr.url, cfg.instances.sonarr.api_key)>>}

InitLinked ==
    /\ client = NewClient("base", FALSE)
    /\ HttpIdle
    /\ args \in [services : ServiceLists, dry_run : BOOLEAN, decl : RunDeclarations]
    /\ env \in Envs
    /\ config = NoConfig
    /\ requested = {}
    /\ reachable = {}
    /\ probed = << >>
    /\ pc = "start"
    /\ idx = 0
    /\ summary = EmptyDict
    /\ order = << >>
    /\ rc = NoRc
    /\ net = {}
    /\ exit_code = -1
    /\ prev = NoRc
    /\ \E apps \in AppsBefore(load_config(Declaration(args.decl), FullEnv)) :
           remote = [DefaultRemote(load_config(Declaration(args.decl), FullEnv))
                         EXCEPT !.prowlarr.applications = apps]

SpecLinked == InitLinked /\ [][Next]_vars

(***************************************************************************)
(* One dry-run of main over all services, every service answering its      *)
(* probe                                                                   *)
(***************************************************************************)

\* python3 setup.py --services all --dry-run, with the first declaration and
\* a complete environment.
InitAll ==
    /\ client = NewClient("base", FALSE)
    /\ HttpIdle
    /\ args = [services |-> {"all"}, dry_run |-> TRUE, decl |-> "standard"]
    /\ env = FullEnv
    /\ config = NoConfig
    /\ requested = {}
    /\ reachable = {}
    /\ probed = << >>
    /\ pc = "start"
    /\ idx = 0
    /\ summary = EmptyDict
    /\ order = << >>
    /\ remote = DefaultRemote(load_config(Declaration("standard"), FullEnv))
    /\ rc = NoRc
    /\ net = {}
    /\ exit_code = -1
    /\ prev = NoRc

\* Every service probed so far answered.
AllAnswered == \A n \in DOMAIN probed : probed[n] = "ok"

\* The steps of such a run: nothing is left out of the request and nothing
\* is skipped.
NextAll ==
    \/ LoadConfig
    \/ Probe /\ AllAnswered'
    \/ EndValidate
    \/ Begin
    \/ configure_qbittorrent
    \/ _set_preferences
    \/ _set_categories
    \/ _set_categories_item
    \/ _ensure_root_folder
    \/ _ensure_download_client
    \/ _set_media_management
    \/ _ensure_tags
    \/ _ensure_tags_item
    \/ configure_prowlarr
    \/ configure_prowlarr_app
    \/ configure_prowlarr_sync
    \/ configure_jellyfin
    \/ configure_jellyfin_library
    \/ configure_jellyfin_refresh
    \/ _configure_sonarr_servers
    \/ _configure_sonarr_server
    \/ _configure_radarr_servers
    \/ _configure_radarr_server
    \/ Succeed
    \/ Fail
    \/ PrintSummary
    \/ Exit

SpecAll == InitAll /\ [][NextAll]_vars

(***************************************************************************)
(* The summary tracker on its own                                          *)
(***************************************************************************)

\* Changes and errors one tracker holds in all.
MaxEntries == 4

RECURSIVE Entries(_, _)
Entries(sm, names) ==
    IF names = << >>
    THEN 0
    ELSE Len(sm[Head(names)].changes) + Len(sm[Head(names)].errors)
         + Entries(sm, Tail(names))

\* The services the tracker is told about.
TrackedServices == {"sonarr", "radarr", "jellyfin"}

Room(n) == Entries(summary, order) + n <= MaxEntries

IdleBut == <<httpVars, args, env, config, requested, reachable, probed, pc, idx, remote,
             rc, net, exit_code, prev>>

CallLogChange ==
    /\ Room(1)
    /\ \E service \in TrackedServices :
           /\ summary' = log_change(summary, service, <<"Created tag">>)
           /\ order' = Inserted(order, service)
    /\ UNCHANGED IdleBut

CallLogSkip ==
    /\ Room(1)
    /\ \E service \in TrackedServices :
           /\ summary' = log_skip(summary, service, "unreachable")
           /\ order' = Inserted(order, service)
    /\ UNCHANGED IdleBut

CallLogError ==
    /\ Room(1)
    /\ \E service \in TrackedServices :
           /\ summary' = log_error(summary, service, "HTTPError")
           /\ order' = Inserted(order, service)
    /\ UNCHANGED IdleBut

CallMarkInProgress ==
    /\ \E service \in TrackedServices :
           /\ summary' = mark_in_progress(summary, service)
           /\ order' = Inserted(order, service)
    /\ UNCHANGED IdleBut

CallMarkSuccess ==
    /\ \E service \in TrackedServices, n \in 0..2 :
           /\ Room(n)
           /\ summary' = mark_success(summary, service, [k \in 1..n |-> <<"Created tag">>])
           /\ order' = Inserted(order, service)
    /\ UNCHANGED IdleBut

CallMarkFailed ==
    /\ Room(1)
    /\ \E service \in TrackedServices :
           /\ summary' = mark_failed(summary, service, "HTTPError")
           /\ order' = Inserted(order, service)
    /\ UNCHANGED IdleBut

\* A new SummaryLogger.
InitSummary ==
    /\ RunIdle
    /\ HttpIdle
    /\ client = NewClient("base", FALSE)

NextSummary ==
    \/ CallLogChange
    \/ CallLogSkip
    \/ CallLogError
    \/ CallMarkInProgress
    \/ CallMarkSuccess
    \/ CallMarkFailed

SpecSummary == InitSummary /\ [][NextSummary]_vars

(***************************************************************************)
(* The quality-profile resolver on its own (jellyseerr.py, _resolve_profile) *)
(***************************************************************************)

\* Profiles in the list an Arr instance returns.
MaxProfiles == 2

ProfileEntries ==
    [id : {1, 4}, name : {"Any", "WEB-1080p", "UHD Bluray + WEB"}]

ProfileLists ==
    UNION {[1..n -> ProfileEntries] : n \in 0..MaxProfiles}

\* Language profiles a Sonarr instance lists.
LanguageEntries == [id : {2, 7}, name : {"English", "ENGLISH", "German"}]

LanguageLists ==
    UNION {[1..n -> LanguageEntries] : n \in 0..MaxProfiles}

\* The instances the resolver is called for: the four with a template
\* profile name and one that _QUALITY_PROFILES does not name.
ResolvedInstances == ArrNames \cup {"sonarr3"}

\* The caller is about to resolve the profile of instance rc.svc;
\* rc.fetched is what the instance lists and rc.flag whether the read of
\* the list returns.
InitResolve ==
    /\ HttpIdle
    /\ client = NewClient("base", FALSE)
    /\ args = [services |-> {"jellyseerr"}, dry_run |-> FALSE, decl |-> "standard"]
    /\ env = FullEnv
    /\ config = load_config(Declaration("standard"), FullEnv)
    /\ requested = {"jellyseerr"}
    /\ reachable = {"jellyseerr"}
    /\ probed = [n \in {"jellyseerr"} |-> "ok"]
    /\ idx = 0
    /\ summary = EmptyDict
    /\ order = << >>
    /\ remote = EmptyDict
    /\ net = {}
    /\ exit_code = -1
    /\ prev = NoRc
    /\ \/ /\ pc = "resolve"
          /\ \E name \in ResolvedInstances, profiles \in ProfileLists, got \in BOOLEAN :
                 rc = [NoRc EXCEPT !.svc = name, !.phase = "_resolve_profile",
                                   !.fetched = profiles, !.flag = got]
       \/ /\ pc = "resolve_language"
          /\ \E name \in {"sonarr", "sonarr2"}, profiles \in LanguageLists, got \in BOOLEAN :
                 rc = [NoRc EXCEPT !.svc = name, !.phase = "_resolve_language_profile_id",
                                   !.fetched = profiles, !.flag = got]

\* profile_id, resolved_profile_name = _resolve_profile(client, inst, profile_name)
ResolveProfile ==
    /\ pc = "resolve"
    /\ rc.phase = "_resolve_profile"
    /\ LET profile == _resolve_profile(rc.fetched, rc.flag, _QUALITY_PROFILES(rc.svc))
       IN  outcome' = Return([t |-> "tuple", v |-> <<profile.id, profile.name>>])
    /\ rc' = Returned(rc)
    /\ UNCHANGED <<client, frame, reqs, ncalls, args, env, config, requested, reachable,
                   probed, pc, idx, summary, order, remote, net, exit_code, prev>>

\* lang_profile_id = _resolve_language_profile_id(inst)
ResolveLanguage ==
    /\ pc = "resolve_language"
    /\ rc.phase = "_resolve_language_profile_id"
    /\ outcome' = Return([t |-> "int",
                          v |-> _resolve_language_profile_id(rc.fetched, rc.flag)])
    /\ rc' = Returned(rc)
    /\ UNCHANGED <<client, frame, reqs, ncalls, args, env, config, requested, reachable,
                   probed, pc, idx, summary, order, remote, net, exit_code, prev>>

NextResolve ==
    \/ ResolveProfile
    \/ ResolveLanguage

SpecResolve == InitResolve /\ [][NextResolve]_vars

(***************************************************************************)
(* Properties of the HTTP client adapter                                   *)
(***************************************************************************)

Is4xx(a) == a.kind = "response" /\ a.status >= 400 /\ a.status <= 499
IsTransient(a) == a.kind = "ConnectionError" \/ (a.kind = "response" /\ a.status >= 500)
AllTransient(r) == \A k \in 1..Len(r.attempts) : IsTransient(r.attempts[k])

\* C1: a 4xx response is never retried: the attempt that got it is the last
\* attempt of its request, no backoff wait follows it, and the request has
\* raised (so a 4xx on the first attempt means exactly one attempt).
C1_ClientErrorNeverRetried ==
    \A i \in 1..Len(reqs) :
        \A k \in 1..Len(reqs[i].attempts) :
            Is4xx(reqs[i].attempts[k]) =>
                /\ k = Len(reqs[i].attempts)
                /\ Len(reqs[i].waits) = k - 1
                /\ reqs[i].state = "raised"

\* C2: a request that keeps getting 5xx or connection failures makes three
\* attempts, sleeping 2 s after the first and 4 s after the second and not
\* after the third, then raises to the caller; no request makes more than
\* three attempts; a request whose attempt succeeds returns, and the public
\* call returns that response's payload.
C2_RetryBudgetAndBackoff ==
    /\ \A i \in 1..Len(reqs) :
           LET r == reqs[i]
               n == Len(r.attempts)
           IN  /\ n <= 3
               /\ AllTransient(r) =>
                      /\ r.state # "returned"
                      /\ r.state = "raised" <=> n = 3
                      /\ r.state = "active" => r.waits = SubSeq(<<2, 4>>, 1, n)
                      /\ r.state = "raised" =>
                             /\ r.waits = <<2, 4>>
                             /\ i = Len(reqs)
                             /\ frame.stage = "done"
                             /\ outcome.kind = "raise"
                             /\ outcome.t \in {"HTTPError", "ConnectionError"}
               /\ (n > 0 /\ r.attempts[n].kind = "response" /\ r.attempts[n].status < 400) =>
                      /\ r.state = "returned"
                      /\ r.resp.status = r.attempts[n].status
    /\ (/\ frame.stage = "done"
        /\ Len(reqs) > 0
        /\ reqs[Len(reqs)].state = "returned"
        /\ reqs[Len(reqs)].by # "login") =>
           LET resp == reqs[Len(reqs)].resp
           IN  /\ outcome.kind = "return"
               /\ outcome.v = resp.body
               /\ outcome.t = (IF resp.ctype = "application/json" THEN "json" ELSE "text")

\* Two 503 answers followed by a 200 on a get: the call returned the payload.
C2_Witness_TwoFailuresThenSuccess ==
    /\ frame.api = "get"
    /\ frame.stage = "done"
    /\ Len(reqs) = 1
    /\ Len(reqs[1].attempts) = 3
    /\ reqs[1].attempts[1].status = 503
    /\ reqs[1].attempts[2].status = 503
    /\ reqs[1].attempts[3].status = 200
    /\ reqs[1].waits = <<2, 4>>
    /\ outcome.kind = "return"

\* C3 (client part): with dry-run enabled, a call to post, put or delete
\* performs no network request and returns None, while a get that returns
\* has performed its GET request.
C3_DryRunWriteSendsNothing ==
    client.dry_run =>
        /\ frame.api \in Writes =>
               /\ reqs = << >>
               /\ frame.stage = "done"
               /\ outcome = Return(None)
        /\ (frame.api = "get" /\ frame.stage = "done" /\ outcome.kind = "return") =>
               \E i \in 1..Len(reqs) :
                   /\ reqs[i].method = "GET"
                   /\ reqs[i].state = "returned"

(***************************************************************************)
(* Properties of a run                                                     *)
(***************************************************************************)

IsSkip(change) == change[1] = "Skipped"

\* C4: with dry-run enabled no change description is recorded: the list a
\* reconciler builds and returns is empty, and so is the list of applied
\* changes the run summary holds for every service.
C4_DryRunRecordsNoChange ==
    args.dry_run =>
        /\ rc.changes = << >>
        /\ \A s \in DOMAIN summary :
               \A k \in 1..Len(summary[s].changes) : IsSkip(summary[s].changes[k])

(***************************************************************************)
(* Properties of the reconcilers                                           *)
(***************************************************************************)

\* The reconciler has completed once, not in dry-run, and was called again.
SecondRun == prev.result = "return" /\ ~args.dry_run

\* C5: every reconciler is idempotent: once one non-dry-run reconciliation
\* has completed against a server that applies each write, the same
\* reconciler run again with the same config issues no write call and
\* returns no change record.
C5_ReconcilersIdempotent ==
    SecondRun => rc.calls = << >> /\ rc.changes = << >>

\* The write calls and change records the current step adds.
NewCalls == SubSeq(rc'.calls, Len(rc.calls) + 1, Len(rc'.calls))
NewChanges == SubSeq(rc'.changes, Len(rc.changes) + 1, Len(rc'.changes))
Untouched == NewCalls = << >> /\ NewChanges = << >>

\* The step leaves the preference `key` alone: no write carries it and no
\* change names it.
KeyUntouched(key, label) ==
    /\ \A k \in 1..Len(NewCalls) : key \notin DOMAIN NewCalls[k].payload
    /\ \A k \in 1..Len(NewChanges) :
           /\ NewChanges[k][1] # label
           /\ NewChanges[k][1] = "Set" => NewChanges[k][2] # key

C6_Step ==
    /\ Running({"qbittorrent"}, "preferences") =>
           LET current == remote.qbittorrent.preferences
               qbit_cfg == config.qbittorrent
           IN  /\ current.save_path = qbit_cfg.default_save_path =>
                      KeyUntouched("save_path", "Set default save path")
               /\ \A i \in 1..Len(_PREF_MAP) :
                      (/\ _PREF_MAP[i].config_key \in DOMAIN qbit_cfg.preferences
                       /\ current[_PREF_MAP[i].api_key] = DesiredPref(qbit_cfg, _PREF_MAP[i])) =>
                          KeyUntouched(_PREF_MAP[i].api_key, "")
    /\ Running({"qbittorrent"}, "category") =>
           LET cat_cfg == config.qbittorrent.categories[rc.i]
           IN  (/\ cat_cfg.name \in DOMAIN rc.fetched
                /\ rc.fetched[cat_cfg.name].savePath = Get(cat_cfg, "save_path", <<cat_cfg.name>>)) =>
                   Untouched
    /\ Running(ArrNames, "root_folder") =>
           LET folders == remote[rc.svc].rootfolder
           IN  (\E i \in 1..Len(folders) :
                    folders[i].path = config.instances[rc.svc].root_folder) =>
                   Untouched
    /\ (/\ Running(ArrNames, "tag")
        /\ Lower(DesiredTags(config, rc.svc)[rc.i]) \in rc.fetched) => Untouched

\* C6: for each managed preference, category, tag and root folder, when the
\* value fetched from the service equals the desired value the reconciler
\* issues no write call for that item and records no change for it.
C6_EqualValueNoWrite == [][C6_Step]_vars

\* The preferences step found save_path as declared and another preference
\* off: its setPreferences call carries the other key and not save_path.
C6_Witness_PartialUpdate ==
    /\ rc.svc = "qbittorrent"
    /\ rc.phase = "categories"
    /\ prev.result = "none"
    /\ ~args.dry_run
    /\ remote.qbittorrent.preferences.save_path = config.qbittorrent.default_save_path
    /\ Len(rc.calls) = 1
    /\ "save_path" \notin DOMAIN rc.calls[1].payload
    /\ "torrent_content_layout" \in DOMAIN rc.calls[1].payload
    /\ Len(rc.changes) = Cardinality(DOMAIN rc.calls[1].payload)

(***************************************************************************)
(* Properties of the orchestrator                                          *)
(***************************************************************************)

\* The order the specification fixes.
DependencyOrder ==
    <<"qbittorrent", "sonarr", "sonarr2", "radarr", "radarr2", "prowlarr",
      "jellyfin", "jellyseerr">>
Position(s) == CHOOSE i \in 1..Len(DependencyOrder) : DependencyOrder[i] = s
Before(a, b) == Position(a) < Position(b)

Terminal == {"success", "failed", "skipped"}
Done(sm, s) == s \in DOMAIN sm /\ sm[s].status \in Terminal

C7_Step ==
    /\ \A b \in Services :
           (pc' = "reconcile" /\ rc'.svc = b) =>
               \A a \in requested' \ {b} :
                   IF Before(a, b) THEN Done(summary', a) ELSE a \notin DOMAIN summary'
    /\ \A a \in Services :
           /\ remote'[a] # remote[a] => pc = "reconcile" /\ rc.svc = a
           /\ Done(summary, a) => ~(pc' = "reconcile" /\ rc'.svc = a)
    /\ \A r \in net' \ net :
           (r.method # "GET" /\ pc # "validate") => pc = "reconcile" /\ rc.svc = r.svc

\* C7: services are reconciled one at a time in the order qbittorrent,
\* sonarr, sonarr2, radarr, radarr2, prowlarr, jellyfin, jellyseerr,
\* restricted to the requested set: while b's reconciler runs, every
\* requested service before b has its terminal outcome and none after b has
\* been touched; a service is mutated only by its own reconciler, which is
\* not invoked again once the service has its outcome.
C7_FixedOrder == [][C7_Step]_vars

\* Radarr's reconciler is running after qBittorrent's has created categories
\* and succeeded.
C7_Witness_SecondRunsAfterFirst ==
    /\ pc = "reconcile"
    /\ rc.svc = "radarr"
    /\ requested = {"qbittorrent", "radarr"}
    /\ summary["qbittorrent"].status = "success"
    /\ DOMAIN remote.qbittorrent.categories # {}
    /\ Len(rc.calls) > 0

\* C8: when the summary is printed every requested service has one terminal
\* status (success, failed or skipped); none is pending or in_progress.
C8_AllTerminalAtSummary ==
    pc \in {"printed", "exit"} => \A s \in requested : Done(summary, s)

\* The summary is printed for a run with one failed and one skipped service.
C8_Witness_FailedAndSkipped ==
    /\ pc = "printed"
    /\ \E a, b \in requested :
           /\ summary[a].status = "failed"
           /\ summary[b].status = "skipped"

SkippedUnreachable ==
    [status |-> "skipped", changes |-> <<<<"Skipped", "unreachable">>>>, errors |-> << >>]

\* C9: a requested service the prober did not confirm reachable is recorded
\* as skipped with reason "unreachable", is never marked failed, its
\* reconciler is never invoked and it receives no mutation; a run in which
\* every requested service is unreachable has no failures.
C9_UnreachableSkipped ==
    pc \notin {"start", "validate", "aborted"} =>
        /\ \A s \in requested \ reachable :
               /\ ~(pc = "reconcile" /\ rc.svc = s)
               /\ remote[s] = DefaultRemote(config)[s]
               /\ \A r \in net :
                      (r.svc = s /\ r.method # "GET") => r = CheckRequest(config, s)
               /\ s \in DOMAIN summary => summary[s] = SkippedUnreachable
               /\ (pc \in {"printed", "exit"} \/ idx > Position(s)) => s \in DOMAIN summary
        /\ reachable = {} =>
               /\ ~has_failures(summary)
               /\ pc = "exit" => exit_code = 0

\* A run of two requested services, both unreachable, has ended with status 0.
C9_Witness_AllUnreachable ==
    /\ pc = "exit"
    /\ Cardinality(requested) = 2
    /\ reachable = {}
    /\ \A s \in requested : summary[s] = SkippedUnreachable
    /\ exit_code = 0

C10_Step ==
    /\ (pc = "reconcile" /\ rc.result = "raise") =>
           /\ summary'[rc.svc].status = "failed"
           /\ summary'[rc.svc].errors = <<rc.error>>
           /\ pc' = "loop"
           /\ idx' = idx + 1
    /\ (pc = "reconcile" /\ rc.result = "return") =>
           /\ summary'[rc.svc].status = "success"
           /\ summary'[rc.svc].errors = << >>
    /\ pc' = "printed" =>
           \A s \in requested' \cap reachable' :
               /\ s \in DOMAIN summary'
               /\ summary'[s].status \in {"success", "failed"}
    /\ \A s \in DOMAIN summary : Done(summary, s) => summary'[s] = summary[s]

\* C10: when a reconciler raises, its service is marked failed with the
\* error recorded and the loop goes on: every later requested and reachable
\* service is still reconciled and ends success or failed by how its own
\* reconciler ended, and no recorded outcome is altered afterwards.
C10_FailureIsolation == [][C10_Step]_vars

\* The summary is printed for a run whose first service failed and whose
\* second service succeeded with changes.
C10_Witness_LaterServiceSucceeds ==
    /\ pc = "printed"
    /\ \E a, b \in requested :
           /\ Before(a, b)
           /\ summary[a].status = "failed"
           /\ summary[a].errors # << >>
           /\ summary[b].status = "success"
           /\ summary[b].changes # << >>

SomeFailed == \E s \in DOMAIN summary : summary[s].status = "failed"

\* C11 as stated: whenever the process has ended, its exit code is 1 if and
\* only if at least one service ended the run in status failed, and 0
\* otherwise.
C11_ExitCodeIffFailed ==
    exit_code # -1 => exit_code = (IF SomeFailed THEN 1 ELSE 0)

\* C11 (amended): a run that reaches sys.exit in main ends with exit code 1
\* if and only if at least one service ended in status failed, and with 0
\* otherwise, so skipped services never make it non-zero; the only other
\* way the process ends is the abort by config resolution, with status 1
\* and no service recorded.
C11_ExitCodeOfCompletedRun ==
    /\ exit_code # -1 => pc \in {"exit", "aborted"}
    /\ pc = "exit" =>
           /\ exit_code = (IF SomeFailed THEN 1 ELSE 0)
           /\ (\A s \in DOMAIN summary : summary[s].status \in {"success", "skipped"}) =>
                  exit_code = 0
    /\ pc = "aborted" => exit_code = 1 /\ DOMAIN summary = {}

\* A run with one skipped service and one succeeded service has ended with 0.
C11_Witness_SkippedExitsZero ==
    /\ pc = "exit"
    /\ exit_code = 0
    /\ \E a, b \in requested :
           /\ summary[a].status = "skipped"
           /\ summary[b].status = "success"

(***************************************************************************)
(* Properties of the summary tracker                                       *)
(***************************************************************************)

\* The re-run suggestions in the report of the current tracker.
Suggestions ==
    SelectSeq(print_summary(summary, order), LAMBDA line : line[1] = "Re-run with")

\* C12: after any sequence of tracker operations, has_failures() is true
\* exactly when some service's current status is failed, and the report
\* holds a re-run suggestion only then, a single one, listing exactly the
\* services whose status is failed, each once.
C12_FailuresAndSuggestion ==
    LET failed == {s \in DOMAIN summary : summary[s].status = "failed"}
    IN  /\ has_failures(summary) <=> failed # {}
        /\ Len(Suggestions) = (IF failed # {} THEN 1 ELSE 0)
        /\ failed # {} =>
               LET listed == Suggestions[1][2]
               IN  /\ {listed[k] : k \in 1..Len(listed)} = failed
                   /\ Len(listed) = Cardinality(failed)

\* One service succeeded with two changes, one was skipped as unreachable
\* and one failed: the report suggests re-running the failed one alone.
C12_Witness_OneOfThreeFailed ==
    /\ pc = "idle"
    /\ \E a, b, c \in DOMAIN summary :
           /\ summary[a].status = "success" /\ Len(summary[a].changes) = 2
           /\ summary[b].status = "skipped"
           /\ summary[c].status = "failed"
           /\ Suggestions = <<<<"Re-run with", <<c>>>>>>

\* C13: the prober never raises and returns a subset of the requested
\* services: exactly those whose probe completed without error (the others
\* ended in a network error, refused credentials or a missing instance
\* entry). Validation is left only by returning, with every requested
\* service probed, and a failed probe of one service leaves the others in.
C13_ProberReturnsCompletedProbes ==
    /\ reachable \subseteq requested
    /\ DOMAIN probed \subseteq requested
    /\ reachable = {s \in DOMAIN probed : probed[s] = "ok"}
    /\ pc \notin {"start", "validate", "aborted"} => DOMAIN probed = requested
    /\ pc = "aborted" => DOMAIN probed = {}

\* C13 witness: validation has returned for two requested services; the
\* probe of one failed on its missing instance entry and the other service,
\* whose probe completed, is the one returned.
C13_Witness_OneProbeFailsOtherStays ==
    /\ pc = "loop"
    /\ \E a, b \in requested :
           /\ probed[a] = "missing instance"
           /\ probed[b] = "ok"
           /\ reachable = {b}

\* The variables the declaration of the run requires: the four fixed ones
\* and the secret each declared instance names.
RequiredByRun ==
    {<<"ULTRA_USERNAME">>, <<"ULTRA_SERVERNAME">>, <<"QBIT_USER">>, <<"QBIT_PASS">>}
        \cup {<<"API_KEY", n>> : n \in DOMAIN Declaration(args.decl).instances}

SomeRequiredMissing ==
    \E key \in RequiredByRun : IF key \in DOMAIN env THEN env[key] = << >> ELSE TRUE

\* C14: when a required environment variable is absent or empty, config
\* resolution raises and the run aborts before any network request: the run
\* never gets past its start, no configuration is resolved, nothing is put
\* on the wire and no service is changed.
C14_MissingSecretAbortsBeforeNetwork ==
    SomeRequiredMissing =>
        /\ pc \in {"start", "aborted"}
        /\ config = NoConfig
        /\ net = {}
        /\ reqs = << >>
        /\ DOMAIN probed = {}
        /\ remote = DefaultRemote(load_config(Declaration(args.decl), FullEnv))

\* C14 witness: a run asked to configure services, started with a required
\* variable present but empty, has aborted.
C14_Witness_EmptySecretAborted ==
    /\ pc = "aborted"
    /\ args.services \cap Services # {}
    /\ \E key \in RequiredByRun : key \in DOMAIN env /\ env[key] = << >>

Unauthenticated(cl) == cl.cls = "qbit" /\ ~cl.authenticated

\* The requests of the current call that went out other than to the login path.
SentElsewhere(rs) ==
    {i \in 1..Len(rs) : rs[i].attempts # << >> /\ rs[i].path # LoginPath}

\* The current call has started a login.
LogsIn(rs) == \E i \in 1..Len(rs) : rs[i].by = "login"

C15_Step ==
    /\ Unauthenticated(client') => SentElsewhere(reqs') = {}
    /\ (frame.stage = "idle" /\ frame'.stage # "idle" /\ frame'.api \in {"get", "post"}) =>
           /\ (Unauthenticated(client) /\ frame'.path # LoginPath) =>
                  frame'.stage = "login" /\ LogsIn(reqs')
           /\ (client.cls = "qbit" /\ client.authenticated) => ~LogsIn(reqs')
    /\ (frame.api \in {"get", "post"} /\ client.cls = "qbit" /\ client.authenticated) =>
           (LogsIn(reqs') => LogsIn(reqs))
    /\ (frame.stage = "login" /\ reqs' # << >> /\ reqs'[1].state = "returned"
            /\ reqs'[1].resp.body # "Ok.") =>
           /\ outcome' = Raise("RuntimeError")
           /\ Unauthenticated(client) => Unauthenticated(client')

\* C15: for the session-based qBittorrent client, no request other than the
\* login call is sent while the client is unauthenticated; the first get or
\* post on an unauthenticated client logs in first; once a login has
\* succeeded later get and post calls do not log in again; and a login whose
\* response body is not exactly "Ok." raises and leaves the client
\* unauthenticated.
C15_SessionClientLogsInFirst == [][C15_Step]_vars

\* The value the fetched entry holds for a field, none when it has no such field.
FetchedValue(entry, name) ==
    IF \E k \in 1..Len(entry.fields) : entry.fields[k].name = name
    THEN {entry.fields[k].value : k \in {j \in 1..Len(entry.fields) : entry.fields[j].name = name}}
    ELSE {}

\* The desired non-secret fields on which the fetched entry differs.
DifferingFields(entry, expected) ==
    {expected[i].name : i \in {j \in 1..Len(expected) :
        /\ expected[j].name # "password"
        /\ FetchedValue(entry, expected[j].name) # {expected[j].value}}}

C16_Step ==
    (Running(ArrNames, "download_client") /\ rc' # rc
        /\ ExistingClient(remote[rc.svc].downloadclient) # 0) =>
        LET clients == remote[rc.svc].downloadclient
            existing == clients[ExistingClient(clients)]
            inst == config.instances[rc.svc]
            desired == FieldDict(ExpectedFields(config, inst))
            differing == DifferingFields(existing, ExpectedFields(config, inst))
            read_failed == rc'.result = "raise" /\ rc'.calls = rc.calls
        IN  /\ differing = {} => NewCalls = << >> /\ remote' = remote /\ rc'.changes = rc.changes
            /\ (differing = {CategoryField(rc.svc)} /\ ~args.dry_run /\ ~read_failed) =>
                   /\ Len(NewCalls) = 1
                   /\ NewCalls[1].api = "put"
                   /\ NewCalls[1].sent
                   /\ NewCalls[1].path = "api/v3/downloadclient/{id}"
                   /\ NewCalls[1].id = existing.id
                   /\ NewCalls[1].payload.id = existing.id
                   /\ FieldDict(NewCalls[1].payload.fields) = desired
                   /\ desired[CategoryField(rc.svc)] = Get(inst, "category", << >>)
                   /\ desired.password = config.qbittorrent.password

\* C16: in the Sonarr/Radarr reconciler, when the fetched list holds a
\* download client whose implementation is "QBittorrent" and every desired
\* non-secret field equals the fetched one, no update is sent; when only the
\* category field differs, exactly one update is sent, a PUT to that entry's
\* server-assigned id and no POST, whose payload carries the new category and
\* the password of the configuration, not the fetched one.
C16_NaturalKeyMatching == [][C16_Step]_vars

\* C16 witness: an entry that differed in its category only, and held a
\* masked password, has been updated by one PUT to its id, carrying the
\* configured category and password.
C16_Witness_CategoryDriftOnePut ==
    /\ rc.svc \in ArrNames
    /\ rc.phase = "media_management"
    /\ prev.result = "none"
    /\ Len(rc.calls) > 0
    /\ LET call == rc.calls[Len(rc.calls)]
           clients == remote[rc.svc].downloadclient
       IN  /\ call.api = "put" /\ call.sent /\ call.id = 5
           /\ Len(clients) = 2
           /\ clients[2].id = 5
           /\ FieldDict(clients[2].fields).password = config.qbittorrent.password
           /\ FieldDict(clients[2].fields)[CategoryField(rc.svc)]
                  = config.instances[rc.svc].category

\* The root folder of the instance being reconciled, resolved against the
\* home directory.
AbsoluteRootFolder ==
    <<"/", "home", config.username>> \o Declaration(args.decl).instances[rc.svc].root_folder

Listed(folders, path) == \E i \in 1..Len(folders) : folders[i].path = path

C17_Step ==
    (Running(ArrNames, "root_folder") /\ rc' # rc /\ ~args.dry_run) =>
        /\ (prev.result = "none" /\ rc'.result # "raise"
                /\ ~Listed(remote[rc.svc].rootfolder, AbsoluteRootFolder)) =>
               /\ Len(NewCalls) = 1
               /\ NewCalls[1].api = "post" /\ NewCalls[1].sent
               /\ NewCalls[1].path = "api/v3/rootfolder"
               /\ NewCalls[1].payload = [path |-> AbsoluteRootFolder]
               /\ NewChanges = <<<<"Added root folder", AbsoluteRootFolder>>>>
               /\ Listed(remote'[rc.svc].rootfolder, AbsoluteRootFolder)
        /\ (prev.result = "return"
                /\ prev.changes # << >>
                /\ prev.changes[1] = <<"Added root folder", AbsoluteRootFolder>>) =>
               /\ Listed(remote[rc.svc].rootfolder, AbsoluteRootFolder)
               /\ Untouched
               /\ remote' = remote

\* C17: with a configured root folder that the instance does not list, the
\* first run creates it with one POST and records exactly one change,
\* "Added root folder" with the absolute path; a second run against the
\* updated instance, which now lists the path, sends no write and records no
\* change for the root folder.
C17_RootFolderCreatedOnce == [][C17_Step]_vars

\* C17 witness: the first run added the root folder and the second run has
\* passed its root-folder step with no call and no change.
C17_Witness_SecondRunFindsFolder ==
    /\ rc.svc \in ArrNames
    /\ ~args.dry_run
    /\ prev.result = "return"
    /\ prev.changes # << >>
    /\ prev.changes[1] = <<"Added root folder", AbsoluteRootFolder>>
    /\ rc.phase = "download_client"
    /\ rc.calls = << >> /\ rc.changes = << >>

\* The name configured for the instance whose profile is being resolved.
ConfiguredProfile ==
    CASE rc.svc = "sonarr" -> "WEB-1080p"
      [] rc.svc = "sonarr2" -> "WEB-2160p"
      [] rc.svc = "radarr" -> "HD Bluray + WEB"
      [] rc.svc = "radarr2" -> "UHD Bluray + WEB"
      [] OTHER -> ""

\* C18: quality-profile resolution never fails the reconciliation and always
\* returns an (id, name) pair: the profile whose name equals the configured
\* name when the instance lists it; otherwise the first listed profile; and
\* (0, "") when no name is configured, when the list is empty or when
\* fetching the list raises.
C18_ProfileResolution ==
    (pc = "resolve" /\ rc.phase = "done") =>
        LET profiles == rc.fetched
            listed == {i \in 1..Len(profiles) : profiles[i].name = ConfiguredProfile}
        IN  /\ rc.result = "return"
            /\ outcome.kind = "return"
            /\ Len(outcome.v) = 2
            /\ IF ConfiguredProfile = "" \/ ~rc.flag \/ profiles = << >>
               THEN outcome.v = <<0, "">>
               ELSE IF listed # {}
               THEN outcome.v[2] = ConfiguredProfile
                    /\ \E i \in listed : outcome.v[1] = profiles[i].id
               ELSE outcome.v = <<profiles[1].id, profiles[1].name>>

\* C18 witness: the Sonarr instance lists profiles, none of them named
\* "WEB-1080p", and the resolver has returned the first one listed.
C18_Witness_FallsBackToFirst ==
    /\ pc = "resolve"
    /\ rc.phase = "done"
    /\ rc.svc = "sonarr"
    /\ rc.flag
    /\ Len(rc.fetched) = 2
    /\ \A i \in 1..2 : rc.fetched[i].name # "WEB-1080p"
    /\ outcome.v = <<rc.fetched[1].id, rc.fetched[1].name>>
    /\ outcome.v # <<0, "">>

\* The fetched connection with the given id equals the payload on every
\* field of the payload.
AlreadyAsDesired(servers, id, payload) ==
    \E i \in 1..Len(servers) :
        /\ servers[i].id = id
        /\ \A k \in DOMAIN payload : k \in DOMAIN servers[i] /\ servers[i][k] = payload[k]

C19_Step ==
    (pc = "reconcile" /\ rc.svc = "jellyseerr"
        /\ rc.phase \in {"sonarr_server", "radarr_server"}) =>
        \A k \in 1..Len(NewCalls) :
            NewCalls[k].api = "put" =>
                ~AlreadyAsDesired(rc.fetched, NewCalls[k].id, NewCalls[k].payload)

\* C19: in the Jellyseerr reconciler, for each Sonarr and Radarr instance,
\* a connection matched by baseUrl whose compared fields all equal the
\* desired payload is left alone (no PUT, no change recorded); an update is
\* sent only when some compared field differs.
C19_MatchedAndEqualIsNoOp == [][C19_Step]_vars

\* The download clients of the reconciled instance that are QBittorrent entries.
QbitEntries ==
    LET clients == remote[rc.svc].downloadclient
    IN  {i \in 1..Len(clients) : clients[i].implementation = "QBittorrent"}

\* C20: after a successful non-dry-run Sonarr/Radarr reconciliation, from
\* any initial list of download clients, the instance has exactly one
\* download-client entry with implementation QBittorrent, and its host,
\* port, urlBase, username, category and TLS fields equal the values
\* derived from config.
C20_ExactlyOneQbitClient ==
    (pc = "reconcile" /\ rc.svc \in ArrNames /\ rc.result = "return" /\ ~args.dry_run) =>
        /\ Cardinality(QbitEntries) = 1
        /\ \A i \in QbitEntries :
               DifferingFields(remote[rc.svc].downloadclient[i],
                               ExpectedFields(config, config.instances[rc.svc])) = {}

\* The calls of the Prowlarr run that write an application, and those that
\* trigger a command.
AppWrites ==
    {k \in 1..Len(rc.calls) :
        rc.calls[k].path \in {"api/v1/applications", "api/v1/applications/{id}"}}
SyncCommands == {k \in 1..Len(rc.calls) : rc.calls[k].path = "api/v1/command"}

\* The application writes that took effect: sent, and not the call that raised.
AppsWritten ==
    {k \in AppWrites : rc.calls[k].sent /\ ~(rc.result = "raise" /\ k = Len(rc.calls))}

FolderNames(rem) ==
    {rem.jellyfin.VirtualFolders[i].Name : i \in 1..Len(rem.jellyfin.VirtualFolders)}

LibraryCreates(calls) == {k \in 1..Len(calls) : calls[k].path = "Library/VirtualFolders"}
LibraryRefreshes(calls) == {k \in 1..Len(calls) : calls[k].path = "Library/Refresh"}

C22_Step ==
    (pc = "reconcile" /\ rc.svc = "jellyfin" /\ rc' # rc) =>
        /\ \A k \in 1..Len(NewCalls) :
               NewCalls[k].path = "Library/VirtualFolders" =>
                   NewCalls[k].payload.name \notin FolderNames(remote)
        /\ Cardinality(LibraryRefreshes(rc'.calls)) <= 1
        /\ \A k \in LibraryRefreshes(rc'.calls) :
               /\ k = Len(rc'.calls)
               /\ rc'.phase = "done"
               /\ LibraryCreates(rc'.calls) # {}
               /\ \A c \in LibraryCreates(rc'.calls) : c < k
        /\ (rc.calls = << >>
                /\ \A i \in 1..Len(Libraries(config)) :
                       Libraries(config)[i].name \in FolderNames(remote)) =>
               NewCalls = << >> /\ remote' = remote

OnlySecretDiffers(entry, expected, secret) ==
    \A i \in 1..Len(expected) :
        (expected[i].name = secret) <=> (FetchedValue(entry, expected[i].name) # {expected[i].value})

\* The Arr instance the current pass of the Prowlarr loop is about.
CurrentApp == InstancesOfType(config, {"sonarr", "radarr"})[rc.i]

C23_Step ==
    /\ (Running(ArrNames, "download_client") /\ rc' # rc
            /\ ExistingClient(remote[rc.svc].downloadclient) # 0) =>
           LET clients == remote[rc.svc].downloadclient
               expected == ExpectedFields(config, config.instances[rc.svc])
           IN  OnlySecretDiffers(clients[ExistingClient(clients)], expected, "password") =>
                   Untouched /\ remote' = remote
    /\ (Running({"prowlarr"}, "application") /\ rc' # rc) =>
           LET url == config.instances[CurrentApp].url
               expected == AppExpectedFields(config.instances[CurrentApp],
                                             config.instances.prowlarr.url)
           IN  (url \in DOMAIN rc.fetched
                   /\ OnlySecretDiffers(rc.fetched[url], expected, "apiKey")) =>
                   Untouched /\ remote' = remote
    /\ (pc = "reconcile" /\ rc.svc \in ArrNames) =>
           \A k \in 1..Len(NewCalls) :
               NewCalls[k].path \in {"api/v3/downloadclient", "api/v3/downloadclient/{id}"} =>
                   FetchedValue(NewCalls[k].payload, "password") = {config.qbittorrent.password}
    /\ (Running({"prowlarr"}, "application")) =>
           \A k \in 1..Len(NewCalls) :
               FetchedValue(NewCalls[k].payload, "apiKey") = {config.instances[CurrentApp].api_key}

\* C23: secret fields are excluded from the diff: when an existing download
\* client (Sonarr/Radarr) or application (Prowlarr) differs from the desired
\* state only in its password or API key, the reconciler sends no update and
\* records no change, so the drift stays; and whenever a create or update is
\* sent, its payload holds the password or API key taken from config.
C23_SecretsNotCompared == [][C23_Step]_vars

\* C23 witness: the Prowlarr run has returned with no call and no change
\* while the Sonarr application still holds a key other than the configured
\* one.
C23_Witness_KeyDriftStays ==
    /\ pc = "reconcile" /\ rc.svc = "prowlarr" /\ ~args.dry_run
    /\ rc.phase \in {"application", "sync", "done"} /\ rc.i >= 2
    /\ \E i \in 1..Len(remote.prowlarr.applications) :
           LET app == remote.prowlarr.applications[i]
           IN  /\ FetchedValue(app, "baseUrl") = {config.instances.sonarr.url}
               /\ FetchedValue(app, "prowlarrUrl") = {config.instances.prowlarr.url}
               /\ FetchedValue(app, "apiKey") # {config.instances.sonarr.api_key}
    /\ \A k \in 1..Len(rc.calls) : rc.calls[k].payload.name # "Sonarr"

\* The values the configuration asks for the three managed flags.
ManagedFlags ==
    LET mm_cfg == config.media_management
    IN  [hardlinksCopy |-> ~(IF "hardlinks" \in DOMAIN mm_cfg THEN mm_cfg.hardlinks ELSE TRUE),
         enableMediaInfo |->
             IF "analyze_video" \in DOMAIN mm_cfg THEN mm_cfg.analyze_video ELSE FALSE,
         downloadPropersAndRepacks |->
             IF "propers_and_repacks" \in DOMAIN mm_cfg
             THEN mm_cfg.propers_and_repacks ELSE "doNotPrefer"]

MediaRequest(method) ==
    [svc |-> rc.svc, method |-> method, path |-> "api/v3/config/mediamanagement"]

C24_Step ==
    (Running(ArrNames, "media_management") /\ rc' # rc) =>
        LET current == remote[rc.svc].mediamanagement
            differing == {k \in DOMAIN ManagedFlags : current[k] # ManagedFlags[k]}
            read_failed == rc'.result = "raise" /\ rc'.calls = rc.calls
        IN  /\ MediaRequest("GET") \in net'
            /\ Len(NewCalls) <= 1
            /\ differing = {} =>
                   /\ NewCalls = << >>
                   /\ net' = net \cup {MediaRequest("GET")}
                   /\ remote' = remote
            /\ (differing # {} /\ ~read_failed) =>
                   /\ Len(NewCalls) = 1
                   /\ NewCalls[1].api = "put"
                   /\ NewCalls[1].path = "api/v3/config/mediamanagement"
                   /\ NewCalls[1].sent = ~args.dry_run
                   /\ DOMAIN NewCalls[1].payload = DOMAIN current
                   /\ \A k \in DOMAIN current :
                          NewCalls[1].payload[k] =
                              IF k \in differing THEN ManagedFlags[k] ELSE current[k]
                   /\ net' = net \cup {MediaRequest("GET")}
                              \cup (IF args.dry_run THEN {} ELSE {MediaRequest("PUT")})

\* C24: media-management reconciliation in Sonarr/Radarr does one read and
\* at most one write: if any of the three managed flags (hardlinksCopy = NOT
\* config hardlinks, enableMediaInfo = config analyze_video,
\* downloadPropersAndRepacks = config propers_and_repacks) differs from the
\* fetched value, exactly one PUT is sent whose payload is the fetched
\* settings with only the differing managed flags overwritten; if none
\* differs, no PUT is sent.
C24_MediaManagementOneWrite == [][C24_Step]_vars

\* C24 witness: the step has sent one PUT for a single differing flag, the
\* hardlink mode, and the instance holds the payload: the inverted config
\* flag, and the unmanaged recycle bin as it was.
C24_Witness_OneFlagOverwritten ==
    /\ pc = "reconcile" /\ rc.svc \in ArrNames /\ rc.phase = "tags" /\ ~args.dry_run
    /\ rc.calls # << >> /\ rc.changes # << >>
    /\ LET call == rc.calls[Len(rc.calls)]
       IN  /\ call.api = "put" /\ call.path = "api/v3/config/mediamanagement"
           /\ remote[rc.svc].mediamanagement = call.payload
           /\ call.payload.hardlinksCopy = ~config.media_management.hardlinks
           /\ call.payload.recycleBin = <<"/", "trash">>
    /\ rc.changes[Len(rc.changes)][1] = "Set hardlinks"
    /\ \A k \in 1..Len(rc.changes) :
           rc.changes[k][1] \notin {"Set analyze video", "Set propers/repacks"}

\* The preference values the configuration asks for, by API key: the save
\* path, and each mapped preference the declaration gives, the management
\* mode as a flag.
WantedPrefs ==
    LET p == config.qbittorrent.preferences
        api == [torrent_management_mode |-> "auto_tmm_enabled",
                torrent_content_layout |-> "torrent_content_layout",
                relocate_on_category_change |-> "torrent_changed_tmm_enabled",
                relocate_on_default_save_path_change |-> "save_path_changed_tmm_enabled"]
        given == DOMAIN p \cap DOMAIN api
        value(c) == IF c = "torrent_management_mode" /\ p[c].v \in {"automatic", "manual"}
                    THEN [t |-> "bool", v |-> IF p[c].v = "automatic" THEN "true" ELSE "false"]
                    ELSE p[c]
    IN  [k \in {"save_path"} \cup {api[c] : c \in given} |->
            IF k = "save_path"
            THEN config.qbittorrent.default_save_path
            ELSE value(CHOOSE c \in given : api[c] = k)]

CallsTo(calls, path) == {k \in 1..Len(calls) : calls[k].path = path}

C25_Step ==
    /\ (Running({"qbittorrent"}, "preferences") /\ rc' # rc) =>
           LET current == remote.qbittorrent.preferences
               differing == {k \in DOMAIN WantedPrefs : current[k] # WantedPrefs[k]}
               read_failed == rc'.result = "raise" /\ rc'.calls = rc.calls
           IN  /\ differing = {} => NewCalls = << >>
               /\ (differing # {} /\ ~read_failed) =>
                      /\ Len(NewCalls) = 1
                      /\ NewCalls[1].api = "post"
                      /\ NewCalls[1].path = "api/v2/app/setPreferences"
                      /\ NewCalls[1].payload = [k \in differing |-> WantedPrefs[k]]
    /\ (Running({"qbittorrent"}, "category") /\ rc' # rc) =>
           LET cat == config.qbittorrent.categories[rc.i]
               path == IF "save_path" \in DOMAIN cat THEN cat.save_path ELSE <<cat.name>>
               current == remote.qbittorrent.categories
               wanted == IF cat.name \notin DOMAIN current
                         THEN "api/v2/torrents/createCategory"
                         ELSE IF current[cat.name].savePath # path
                         THEN "api/v2/torrents/editCategory"
                         ELSE ""
           IN  IF wanted = ""
               THEN NewCalls = << >>
               ELSE /\ Len(NewCalls) = 1
                    /\ NewCalls[1].api = "post"
                    /\ NewCalls[1].path = wanted
                    /\ NewCalls[1].payload = [category |-> cat.name, savePath |-> path]
    /\ (pc = "reconcile" /\ rc.svc = "qbittorrent") =>
           /\ Cardinality(CallsTo(rc'.calls, "api/v2/app/setPreferences")) <= 1
           /\ \A n \in {"sonarr", "radarr"} :
                  Cardinality({k \in 1..Len(rc'.calls) :
                      /\ rc'.calls[k].path \in {"api/v2/torrents/createCategory",
                                                "api/v2/torrents/editCategory"}
                      /\ rc'.calls[k].payload.category = n}) <= 1

\* C25: the qBittorrent reconciler sends at most one setPreferences call per
\* run, containing exactly the keys (save_path and the mapped preferences
\* present in config, "automatic"/"manual" translated to true/false) whose
\* fetched value differs from the desired one; for categories it sends
\* exactly one call per declared category that needs a change
\* (createCategory if the name is absent, editCategory if the save path
\* differs) and none for categories that match.
C25_BatchedPreferencesAndCategories == [][C25_Step]_vars

\* C25 witness: a returned run whose single setPreferences call carried the
\* management mode alone, translated from "automatic" to true, and which
\* created one category and corrected the path of the other.
C25_Witness_ModeTranslated ==
    /\ pc = "reconcile" /\ rc.svc = "qbittorrent" /\ rc.result = "return"
    /\ ~args.dry_run
    /\ Len(rc.calls) = 3
    /\ rc.calls[1].path = "api/v2/app/setPreferences"
    /\ config.qbittorrent.preferences.torrent_management_mode = Str("automatic")
    /\ rc.calls[1].payload = [auto_tmm_enabled |-> Bool(TRUE)]
    /\ {rc.calls[2].path, rc.calls[3].path}
           = {"api/v2/torrents/createCategory", "api/v2/torrents/editCategory"}

\* The tag creations among calls whose label equals tag ignoring case.
TagCreates(calls, tag) ==
    {k \in 1..Len(calls) :
        /\ calls[k].api = "post" /\ calls[k].path = "api/v3/tag"
        /\ Lower(calls[k].payload.label) = Lower(tag)}

HasTag(tags, tag) == \E i \in 1..Len(tags) : Lower(tags[i].label) = Lower(tag)

\* A declared tag is created exactly when the service has no tag equal to
\* it ignoring case.
C26_CreatedIffMissing ==
    (Running(ArrNames, "tag") /\ rc' # rc) =>
        LET tag == DesiredTags(config, rc.svc)[rc.i]
        IN  TagCreates(NewCalls, tag) # {} <=>
                ~HasTag(IF args.dry_run THEN remote[rc.svc].tag
                        ELSE SubSeq(remote[rc.svc].tag, 1,
                                    Len(remote[rc.svc].tag) - Cardinality(
                                        {k \in 1..Len(rc.calls) : rc.calls[k].path = "api/v3/tag"})),
                        tag)

\* After a returned live run every declared tag is on the service.
C26_AllPresent ==
    (pc = "reconcile" /\ rc.svc \in ArrNames /\ rc.result = "return" /\ ~args.dry_run) =>
        \A i \in 1..Len(DesiredTags(config, rc.svc)) :
            HasTag(remote[rc.svc].tag, DesiredTags(config, rc.svc)[i])

\* No declared tag is created more than once in a run.
C26_CreatedOnce ==
    (pc = "reconcile" /\ rc.svc \in ArrNames) =>
        \A i \in 1..Len(DesiredTags(config, rc.svc)) :
            Cardinality(TagCreates(rc.calls, DesiredTags(config, rc.svc)[i])) <= 1

C26_Step ==
    /\ C26_CreatedIffMissing
    /\ C26_AllPresent'
    /\ C26_CreatedOnce'

\* C26: tag reconciliation matches case-insensitively: a declared tag is
\* created if and only if no existing tag label equals it ignoring case,
\* and after a successful non-dry-run reconciliation every declared tag is
\* present (ignoring case) with no declared tag created more than once in
\* that run.
C26_TagsCaseInsensitive == [][C26_Step]_vars

\* The spellings of "English" a Sonarr instance may list.
EnglishNames == {"english", "English", "ENGLISH"}

\* C27: language-profile resolution for a Sonarr connection always returns
\* an id and never raises: the id of the profile named "English"
\* (case-insensitive) if present, else the id of the first listed profile,
\* else the fixed fallback id 1 when the list is empty or the endpoint is
\* absent or errors.
C27_LanguageProfileResolution ==
    (pc = "resolve_language" /\ rc.phase = "done") =>
        LET profiles == rc.fetched
            english == {i \in 1..Len(profiles) : profiles[i].name \in EnglishNames}
        IN  /\ rc.result = "return"
            /\ outcome.kind = "return"
            /\ outcome.v \in Int
            /\ IF ~rc.flag \/ profiles = << >>
               THEN outcome.v = 1
               ELSE IF english # {}
               THEN outcome.v = profiles[CHOOSE i \in english : \A j \in english : i <= j].id
               ELSE outcome.v = profiles[1].id

\* C27 witness: the instance lists a German profile first and an "ENGLISH"
\* one second, and the resolver has returned the id of the second.
C27_Witness_EnglishNotFirst ==
    /\ pc = "resolve_language"
    /\ rc.phase = "done"
    /\ rc.flag
    /\ Len(rc.fetched) = 2
    /\ rc.fetched[1] = [id |-> 7, name |-> "German"]
    /\ rc.fetched[2] = [id |-> 2, name |-> "ENGLISH"]
    /\ outcome.v = 2

\* The entry or settings object carries every value of the payload.
Agrees(entry, payload) ==
    \A k \in DOMAIN payload : k \in DOMAIN entry /\ entry[k] = payload[k]

InList(entries, payload) == \E i \in 1..Len(entries) : Agrees(entries[i], payload)

\* The mutation a write call asked for is in effect on the service.
InEffect(call, rem) ==
    CASE call.path = "api/v2/app/setPreferences" -> Agrees(rem.preferences, call.payload)
      [] call.path \in {"api/v2/torrents/createCategory", "api/v2/torrents/editCategory"} ->
             /\ call.payload.category \in DOMAIN rem.categories
             /\ rem.categories[call.payload.category].savePath = call.payload.savePath
      [] call.path = "api/v3/rootfolder" -> InList(rem.rootfolder, call.payload)
      [] call.path \in {"api/v3/downloadclient", "api/v3/downloadclient/{id}"} ->
             InList(rem.downloadclient, call.payload)
      [] call.path = "api/v3/config/mediamanagement" ->
             Agrees(rem.mediamanagement, call.payload)
      [] call.path = "api/v3/tag" -> InList(rem.tag, call.payload)
      [] call.path \in {"api/v1/applications", "api/v1/applications/{id}"} ->
             InList(rem.applications, call.payload)
      [] call.path = "api/v1/command" ->
             \E i \in 1..Len(rem.commands) : rem.commands[i] = call.payload.name
      [] call.path = "Library/VirtualFolders" ->
             \E i \in 1..Len(rem.VirtualFolders) :
                 rem.VirtualFolders[i].Name = call.payload.name
      [] call.path = "Library/Refresh" -> rem.refreshes > 0
      [] call.path \in {"api/v1/settings/sonarr", "api/v1/settings/sonarr/{id}"} ->
             InList(rem.sonarr, call.payload)
      [] call.path \in {"api/v1/settings/radarr", "api/v1/settings/radarr/{id}"} ->
             InList(rem.radarr, call.payload)
      [] OTHER -> FALSE

\* The calls of run r whose mutation is in effect on the service of r.
Applied(r, rem) ==
    IF r.svc = "" THEN {}
    ELSE {k \in 1..Len(r.calls) : r.calls[k].sent /\ InEffect(r.calls[k], rem[r.svc])}

InsideReconciler == pc = "reconcile" /\ rc.result = "none"

C28_Step ==
    \* a write that returns has taken effect; a call that raises changes nothing
    /\ InsideReconciler =>
           /\ \A k \in 1..Len(NewCalls) : NewCalls[k].api \in {"post", "put"}
           /\ rc'.result # "raise" =>
                  \A k \in 1..Len(NewCalls) :
                      NewCalls[k].sent => InEffect(NewCalls[k], remote'[rc.svc])
           /\ rc'.result = "raise" => remote' = remote /\ Len(NewCalls) <= 1
           /\ Applied(rc, remote) \subseteq Applied(rc', remote')
           /\ \A s \in Services \ {rc.svc} : remote'[s] = remote[s]
    \* main makes no call and changes nothing when it handles the exception,
    \* and the mutations of the failed run stay in effect to the end of the run
    /\ ~InsideReconciler => remote' = remote
    /\ (pc = "reconcile" /\ rc.result = "raise") =>
           /\ net' = net
           /\ prev' = rc
    /\ (prev.result = "raise" /\ prev' = prev) =>
           Applied(prev, remote) \subseteq Applied(prev, remote')

\* C28: no rollback: when a reconciler fails partway through, every
\* mutation it already applied to the service before the failure remains in
\* effect; the reconciler issues no compensating delete or revert call, and
\* the orchestrator issues none either.
C28_NoRollback == [][C28_Step]_vars

\* C28 witness: a live run has failed after two of its writes were applied,
\* main has recorded the failure and gone on to the end of the loop, and
\* both mutations are still in effect on the service.
C28_Witness_AppliedWritesRemain ==
    /\ pc = "printed"
    /\ ~args.dry_run
    /\ prev.result = "raise"
    /\ summary[prev.svc].status = "failed"
    /\ Len(prev.calls) >= 2
    /\ {1, 2} \subseteq Applied(prev, remote)
    /\ remote[prev.svc] # DefaultRemote(config)[prev.svc]

\* The summary entry of a service main has recorded as failed.
FailedEntry(entry) ==
    /\ entry.status = "failed"
    /\ Len(entry.errors) = 1
    /\ entry.changes = << >>

C29_Step ==
    /\ (pc = "reconcile" /\ rc.result = "raise") =>
           /\ rc.svc \in DOMAIN summary'
           /\ FailedEntry(summary'[rc.svc])
           /\ summary'[rc.svc].errors = <<rc.error>>
    /\ \A s \in DOMAIN summary :
           FailedEntry(summary[s]) => s \in DOMAIN summary' /\ FailedEntry(summary'[s])

\* C29: when a reconciler raises after having applied some mutations, the
\* summary entry of that service has status failed, exactly one error
\* message and an empty change list: the change descriptions of the
\* mutations already applied are lost.
C29_FailedEntryHasNoChanges == [][C29_Step]_vars

\* C29 witness: a live run applied a write and had its change string ready
\* when a later call raised; the summary that was printed shows the service
\* as failed with one error and no change.
C29_Witness_ChangesLost ==
    /\ pc = "printed"
    /\ ~args.dry_run
    /\ prev.result = "raise"
    /\ prev.changes # << >>
    /\ Applied(prev, remote) # {}
    /\ FailedEntry(summary[prev.svc])

C30_Step ==
    /\ (InsideReconciler /\ rc'.result # "raise") =>
           /\ NewCalls = << >> <=> NewChanges = << >>
           /\ \A k \in 1..Len(NewCalls) : NewCalls[k].api \in {"post", "put", "delete"}
    /\ (pc' = "reconcile" /\ rc'.result = "return") =>
           (rc'.changes = << >> <=> rc'.calls = << >>)

\* C30: for every reconciler and every remote state, a run that completes
\* without raising returns an empty change list if and only if it called
\* none of the client's post/put/delete methods (the qBittorrent login
\* aside); equivalently, every write call is accompanied by at least one
\* change string and every change string by at least one write call.
C30_ChangesIffWrites == [][C30_Step]_vars

\* C30 witness: a returned qBittorrent run that made one write call, the
\* batched preferences update, and reports two changes for it.
C30_Witness_OneCallTwoChanges ==
    /\ pc = "reconcile"
    /\ rc.svc = "qbittorrent"
    /\ rc.result = "return"
    /\ Len(rc.calls) = 1
    /\ rc.calls[1].path = "api/v2/app/setPreferences"
    /\ Len(rc.changes) = 2

\* The requests sent so far that are not GETs.
NonGet == {r \in net : r.method # "GET"}

\* C31: in a dry-run run the only non-GET network requests ever sent are
\* qBittorrent login POSTs (from the prober and from the qBittorrent
\* reconciler); every other POST/PUT/DELETE is suppressed.
C31_DryRunSendsOnlyLogins ==
    args.dry_run =>
        \A r \in NonGet :
            r = [svc |-> "qbittorrent", method |-> "POST", path |-> "api/v2/auth/login"]

\* C31 witness: a dry-run over all services has run to its exit, every
\* reconciler returned, reconcilers reported changes they would make, and
\* the login POST to qBittorrent is the one non-GET request that went out.
C31_Witness_CompleteDryRun ==
    /\ pc = "exit"
    /\ args.dry_run
    /\ requested = Services
    /\ \A s \in Services : s \in DOMAIN summary /\ summary[s].status = "success"
    /\ summary["qbittorrent"].changes # << >>
    /\ summary["radarr"].changes # << >>
    /\ summary["prowlarr"].changes # << >>
    /\ NonGet = {[svc |-> "qbittorrent", method |-> "POST", path |-> "api/v2/auth/login"]}
    /\ \E r \in net : r.method = "GET" /\ r.svc = "radarr"

\* The instances of type sonarr or radarr of the resolved configuration.
ArrInstances == {n \in DOMAIN config.instances : config.instances[n].type \in {"sonarr", "radarr"}}

\* The calls of the run that create or update the connection of instance n:
\* an application with its URL in Prowlarr, a server of its type with its
\* application path in Jellyseerr.
ConnectionWrites(n) ==
    {k \in 1..Len(rc.calls) :
        /\ rc.calls[k].api \in {"post", "put"}
        /\ IF rc.svc = "prowlarr"
           THEN /\ rc.calls[k].path \in {"api/v1/applications", "api/v1/applications/{id}"}
                /\ \E f \in 1..Len(rc.calls[k].payload.fields) :
                       rc.calls[k].payload.fields[f] =
                           [name |-> "baseUrl", value |-> config.instances[n].url]
           ELSE /\ rc.calls[k].path \in
                       {"api/v1/settings/" \o config.instances[n].type,
                        "api/v1/settings/" \o config.instances[n].type \o "/{id}"}
                /\ rc.calls[k].payload.baseUrl = config.instances[n].app_path}

\* The run of Prowlarr or Jellyseerr has returned.
LinkerReturned ==
    pc = "reconcile" /\ rc.svc \in {"prowlarr", "jellyseerr"} /\ rc.result = "return"

\* The application Prowlarr listed for instance n already had the URL of
\* the instance and Prowlarr's own URL.
AppWasCorrect(n) ==
    /\ rc.svc = "prowlarr"
    /\ config.instances[n].url \in DOMAIN rc.fetched
    /\ FetchedValue(rc.fetched[config.instances[n].url], "prowlarrUrl")
           = {config.instances.prowlarr.url}

\* C32 as stated: the Prowlarr and Jellyseerr reconcilers create or update
\* a connection for every instance of type sonarr or radarr present in the
\* resolved config, regardless of whether that instance was requested, was
\* found unreachable by the prober, or failed its own reconciliation
\* earlier in the run.
C32_EveryInstanceWritten ==
    LinkerReturned => \A n \in ArrInstances : ConnectionWrites(n) # {}

\* C32, amended: for every such instance, requested or not, reachable or
\* not, failed or not, a returned run of the Prowlarr or Jellyseerr
\* reconciler has made exactly one create or update call for its
\* connection, except that Prowlarr makes none for an application it found
\* already correct.
C32_EveryInstanceReconciled ==
    LinkerReturned =>
        \A n \in ArrInstances :
            IF AppWasCorrect(n)
            THEN ConnectionWrites(n) = {}
            ELSE Cardinality(ConnectionWrites(n)) = 1

\* C32 witness: only radarr and prowlarr were requested, the Radarr
\* reconciler failed, and the Prowlarr run that followed has returned
\* after writing an application for radarr and for each instance that was
\* never requested but sonarr, whose application was already correct.
C32_Witness_FailedAndUnrequested ==
    /\ LinkerReturned
    /\ rc.svc = "prowlarr"
    /\ ~args.dry_run
    /\ requested = {"radarr", "prowlarr"}
    /\ summary["radarr"].status = "failed"
    /\ AppWasCorrect("sonarr")
    /\ ConnectionWrites("sonarr") = {}
    /\ \A n \in ArrInstances \ {"sonarr"} : Cardinality(ConnectionWrites(n)) = 1

====
